---- MODULE Spec2Model ----
(***************************************************************************)
(* A model of grilops' constraint compilers: RegionConstrainer             *)
(* (regions.py), ShapeConstrainer (shapes.py), PathConstrainer (paths.py), *)
(* ExpressionQuadTree (quadtree.py) and the lattices' transformation       *)
(* functions (geometry.py).  A constructor adds assertions to a z3         *)
(* solver; the solver is modelled as a search that decides the variables   *)
(* of one lattice point after another and keeps a partial assignment only  *)
(* while no assertion whose variables are all decided is false.  The       *)
(* complete assignments it reaches are exactly the assignments satisfying  *)
(* every assertion.                                                        *)
(***************************************************************************)
EXTENDS Integers, Sequences, FiniteSets, TLC

VARIABLES
  pc,        \* which step of its life the object under study is in
  rcfg,      \* RegionConstrainer constructor arguments (lattice, flags)
  rsolver,   \* names of the assertion groups the constructor has added
  rmodel,    \* the model check() returned for the four region grids
  qpoints,   \* the points an ExpressionQuadTree was constructed from
  qfuncs,    \* __expr_funcs: key -> builder (one dictionary for all nodes)
  qexprs,    \* __exprs of every node: <<node, key>> -> cached expression
  qhist,     \* every <<key, builder>> ever registered
  qlast,     \* the last call on the tree and what it returned or raised
  scfg,      \* ShapeConstrainer constructor arguments and the SymbolGrid
  ssolver,   \* the assertions added to the solver of the ShapeConstrainer
  smodel,    \* the model check() returned for the two shape grids
  gcfg,      \* a lattice class, the two transformation flags and a shape
  gvariants, \* what transformation_functions and __make_variants return
  instance_index, \* the class attributes _instance_index of the constrainers
  shared,    \* the constrainers constructed on one shared solver, in order
  pcfg,      \* PathConstrainer and PathSymbolSet constructor arguments
  psolver,   \* names of the assertion groups added to the grid's solver
  pmodel     \* the model check() returned for the cells and the path grids

rvars == <<rcfg, rsolver, rmodel>>

qvars == <<qpoints, qfuncs, qexprs, qhist, qlast>>

svars == <<scfg, ssolver, smodel>>

gvars == <<gcfg, gvariants>>

cvars == <<instance_index, shared>>

pvars == <<pcfg, psolver, pmodel>>

\* the variables of the objects the regions, quadtrees and shapes above
\* never touch
ovars == <<gcfg, gvariants, instance_index, shared, pcfg, psolver, pmodel>>

vars ==
  <<pc, rcfg, rsolver, rmodel, qpoints, qfuncs, qexprs, qhist, qlast,
    scfg, ssolver, smodel, gcfg, gvariants, instance_index, shared,
    pcfg, psolver, pmodel>>

----------------------------------------------------------------------------
(* Bounds of the model *)

\* the lattices are the h x w rectangles with at most MaxCells points
MaxCells == 4

\* a quadtree is built from at most MaxTreePoints points
MaxTreePoints == 3

\* at most MaxCalls calls are made on a quadtree
MaxCalls == 2

\* is_unique is called at most MaxIsUnique times on a SymbolGrid
MaxIsUnique == 2

\* the greatest number of points of a lattice with rectangular=True
MaxRectCells == 6

----------------------------------------------------------------------------
(* geometry.py *)

Translate(p, v) == <<p[1] + v[1], p[2] + v[2]>>

\* RectangularLattice.points of a full h x w rectangle, as a set
LatticePoints(lat) == (0 .. lat.h - 1) \X (0 .. lat.w - 1)

\* len(points)
NumPoints(lat) == lat.h * lat.w

\* point in the lattice's point dictionary
InLattice(lat, p) ==
  /\ 0 <= p[1] /\ p[1] < lat.h
  /\ 0 <= p[2] /\ p[2] < lat.w

\* sorted(points): row-major order, so the index of (y, x) is y * w + x
PointToIndex(lat, p) == p[1] * lat.w + p[2]

\* the point at position i of the sorted point list
IndexToPoint(lat, i) == <<i \div lat.w, i % lat.w>>

\* the edge-sharing directions, in the order the lattice lists them
EdgeSharingDirections == <<"N", "S", "E", "W">>

DirVector(d) ==
  CASE d = "N" -> <<-1, 0>>
    [] d = "S" -> <<1, 0>>
    [] d = "E" -> <<0, 1>>
    [] d = "W" -> <<0, -1>>

\* (mutant) the direction itself is taken for its opposite
OppositeDirection_Same(d) == d

\* Lattice.opposite_direction: the direction of the negated vector
OppositeDirection(d) ==
  CASE d = "N" -> "S"
    [] d = "S" -> "N"
    [] d = "E" -> "W"
    [] d = "W" -> "E"

----------------------------------------------------------------------------
(* regions.py *)

X == 0

R == 1

\* __manage_edge_sharing_directions: parent_types and the direction indices
ParentTypes == <<"X", "R">> \o EdgeSharingDirections

\* the parent_grid value of direction d (X is 0, R is 1, then the directions)
EdgeSharingDirectionToIndex(d) ==
  CASE d = "N" -> 2
    [] d = "S" -> 3
    [] d = "E" -> 4
    [] d = "W" -> 5

\* an optional constructor argument: <<>> is None, <<v>> is the value v
None == <<>>

\* (mutant) the min_region_size argument is dropped
MinRegionSize_One(c) == 1

MinRegionSize(c) ==
  IF c.min_region_size # None THEN c.min_region_size[1] ELSE 1

MaxRegionSize(c) ==
  IF c.max_region_size # None THEN c.max_region_size[1]
  ELSE NumPoints(c.lattice)

\* (mutant) the complete argument is dropped
Complete_Ignored(c) == FALSE

\* self.__complete
Complete(c) == c.complete

\* the lattice points reached from p by one edge-sharing direction
Neighbours(c, p) ==
  {q \in {Translate(p, DirVector(EdgeSharingDirections[i])) :
            i \in 1 .. Len(EdgeSharingDirections)} : InLattice(c.lattice, q)}

\* __create_grids, parent grid: the assertions on point p
ParentGridAsserts(c, a, p) ==
  LET v == a.parent[p] IN
  /\ IF Complete(c) THEN v >= R ELSE v >= X
  /\ v < Len(ParentTypes)

\* (mutant) the subtree size is asserted to be below max_region_size
SubtreeSizeGridAsserts_Strict(c, a, p) ==
  LET v == a.subtree_size[p] IN
  /\ IF Complete(c) THEN v >= 1 ELSE v >= 0
  /\ v < MaxRegionSize(c)

\* __create_grids, subtree size grid
SubtreeSizeGridAsserts(c, a, p) ==
  LET v == a.subtree_size[p] IN
  /\ IF Complete(c) THEN v >= 1 ELSE v >= 0
  /\ v <= MaxRegionSize(c)

\* (mutant) a root is not given its own lattice index as region id
RegionIdGridAsserts_NoRootId(c, a, p) ==
  LET v == a.region_id[p]
      parent == a.parent[p] IN
  /\ IF Complete(c) THEN v >= 0 ELSE v >= -1
  /\ v < NumPoints(c.lattice)
  /\ (parent = X => v = -1)

\* __create_grids, region id grid
RegionIdGridAsserts(c, a, p) ==
  LET v == a.region_id[p]
      parent == a.parent[p] IN
  /\ IF Complete(c) THEN v >= 0 ELSE v >= -1
  /\ v < NumPoints(c.lattice)
  /\ (parent = X => v = -1)
  /\ (parent = R => v = PointToIndex(c.lattice, p))

\* (mutant) a root is not given its subtree size as region size
RegionSizeGridAsserts_NoRootSize(c, a, p) ==
  LET v == a.region_size[p]
      parent == a.parent[p] IN
  /\ IF Complete(c) THEN v >= MinRegionSize(c)
                    ELSE (v >= MinRegionSize(c) \/ v = -1)
  /\ v <= MaxRegionSize(c)
  /\ (parent = X => v = -1)

\* __create_grids, region size grid
RegionSizeGridAsserts(c, a, p) ==
  LET v == a.region_size[p]
      parent == a.parent[p]
      subtree_size == a.subtree_size[p] IN
  /\ IF Complete(c) THEN v >= MinRegionSize(c)
                    ELSE (v >= MinRegionSize(c) \/ v = -1)
  /\ v <= MaxRegionSize(c)
  /\ (parent = X => v = -1)
  /\ (parent = R => v = subtree_size)

\* grid g holds a decided value for point p
Has(g, p) == p \in DOMAIN g

\* (mutant) an excluded point may be named as a parent
ConstrainSideExcluded_Dropped(a, p, sp, sd) == TRUE

\* __add_constraints.constrain_side(p, sp, sd), first assertion: no point
\* names an excluded point as its parent
ConstrainSideExcluded(a, p, sp, sd) ==
  (Has(a.parent, p) /\ Has(a.parent, sp)) =>
    (a.parent[p] = X => a.parent[sp] # sd)

\* (mutant) a child is only given the region size of its parent
ConstrainSideSame_SizeOnly(a, p, sp, sd) ==
  (Has(a.parent, sp) /\ a.parent[sp] = sd) =>
    ((Has(a.region_size, p) /\ Has(a.region_size, sp)) =>
       a.region_size[p] = a.region_size[sp])

\* (mutant) a child is only given the region id of its parent
ConstrainSideSame_IdOnly(a, p, sp, sd) ==
  (Has(a.parent, sp) /\ a.parent[sp] = sd) =>
    ((Has(a.region_id, p) /\ Has(a.region_id, sp)) =>
       a.region_id[p] = a.region_id[sp])

\* __add_constraints.constrain_side(p, sp, sd), second assertion: a child has
\* the region id and the region size of its parent
ConstrainSideSame(a, p, sp, sd) ==
  (Has(a.parent, sp) /\ a.parent[sp] = sd) =>
    /\ (Has(a.region_id, p) /\ Has(a.region_id, sp)) =>
          a.region_id[p] = a.region_id[sp]
    /\ (Has(a.region_size, p) /\ Has(a.region_size, sp)) =>
          a.region_size[p] = a.region_size[sp]

ConstrainSide(a, p, sp, sd) ==
  /\ ConstrainSideExcluded(a, p, sp, sd)
  /\ ConstrainSideSame(a, p, sp, sd)

\* __add_constraints.subtree_size_term(sp, sd)
SubtreeSizeTerm(a, sp, sd) ==
  IF a.parent[sp] = sd THEN a.subtree_size[sp] ELSE 0

\* (mutant) a point does not count itself in its subtree size
OwnSizeTerm_Zero(a, p) == 0

\* the first term of subtree_size_terms: the point itself
OwnSizeTerm(a, p) == IF a.parent[p] # X THEN 1 ELSE 0

\* Sum(*subtree_size_terms) for point p, over the directions from index i on
RECURSIVE SumTerms(_, _, _, _)
SumTerms(c, a, p, i) ==
  IF i > Len(EdgeSharingDirections) THEN 0
  ELSE LET d == EdgeSharingDirections[i]
           sp == Translate(p, DirVector(d)) IN
       (IF InLattice(c.lattice, sp)
          THEN SubtreeSizeTerm(a, sp, EdgeSharingDirectionToIndex(OppositeDirection(d)))
          ELSE 0)
       + SumTerms(c, a, p, i + 1)

\* point sp names point p as its parent: its parent value is the index of
\* the direction that leads from sp to p
NamesAsParent(a, sp, p) ==
  \E i \in 1 .. Len(EdgeSharingDirections) :
    LET d == EdgeSharingDirections[i] IN
    /\ Translate(sp, DirVector(d)) = p
    /\ a.parent[sp] = EdgeSharingDirectionToIndex(d)

\* every term of the sum for p has a value: each neighbour has a parent
\* value, and a subtree size if its term is its subtree size
SumTermsKnown(c, a, p) ==
  \A i \in 1 .. Len(EdgeSharingDirections) :
    LET d == EdgeSharingDirections[i]
        sp == Translate(p, DirVector(d)) IN
    InLattice(c.lattice, sp) =>
      /\ Has(a.parent, sp)
      /\ a.parent[sp] = EdgeSharingDirectionToIndex(OppositeDirection(d)) =>
           Has(a.subtree_size, sp)

\* the assertion closing the loop body of __add_constraints
SubtreeSizeSum(c, a, p) ==
  (Has(a.subtree_size, p) /\ SumTermsKnown(c, a, p)) =>
    a.subtree_size[p] = OwnSizeTerm(a, p) + SumTerms(c, a, p, 1)

\* the assertion of the else branch: no parent outside the lattice
NoParentOutside(a, p, d) == a.parent[p] # EdgeSharingDirectionToIndex(d)

\* __add_constraints: the assertions of the loop body for point p
AddConstraintsAsserts(c, a, p) ==
  /\ \A i \in 1 .. Len(EdgeSharingDirections) :
       LET d == EdgeSharingDirections[i]
           sp == Translate(p, DirVector(d)) IN
       IF InLattice(c.lattice, sp)
         THEN ConstrainSide(a, p, sp,
                            EdgeSharingDirectionToIndex(OppositeDirection(d)))
         ELSE NoParentOutside(a, p, d)
  /\ SubtreeSizeSum(c, a, p)

\* (mutant) the corner rule is added for one pair of neighbours only
RectangularAsserts_FirstPair(c, a, p) ==
  LET neighbors == Neighbours(c, p)
      N == Translate(p, DirVector("N"))
      E == Translate(p, DirVector("E")) IN
  ({N, E} \subseteq neighbors) =>
    LET common_points == (Neighbours(c, N) \cap Neighbours(c, E)) \ {p} IN
    common_points # {} =>
      ((a.region_id[N] = a.region_id[p] /\ a.region_id[E] = a.region_id[p])
         => \A cp \in common_points : a.region_id[cp] = a.region_id[p])

\* the corner rule, were it asserted for the points of regions only
RectangularAsserts_RegionsOnly(c, a, p) ==
  LET neighbors == Neighbours(c, p) IN
  \A n1, n2 \in neighbors :
    n1 # n2 =>
      LET common_points ==
            (Neighbours(c, n1) \cap Neighbours(c, n2)) \ {p} IN
      common_points # {} =>
        ((/\ a.region_id[p] # -1
          /\ a.region_id[n1] = a.region_id[p]
          /\ a.region_id[n2] = a.region_id[p])
           => \A cp \in common_points : a.region_id[cp] = a.region_id[p])

\* __add_rectangular_constraints: the assertions of the loop body for
\* point p, one for each pair of its neighbours that have a common
\* neighbour other than p
RectangularAsserts(c, a, p) ==
  LET neighbors == Neighbours(c, p) IN
  \A n1, n2 \in neighbors :
    n1 # n2 =>
      LET common_points ==
            (Neighbours(c, n1) \cap Neighbours(c, n2)) \ {p} IN
      common_points # {} =>
        ((a.region_id[n1] = a.region_id[p] /\ a.region_id[n2] = a.region_id[p])
           => \A cp \in common_points : a.region_id[cp] = a.region_id[p])

\* every assertion the solver holds is true under the complete assignment a
Satisfies(c, slv, a) ==
  \A p \in LatticePoints(c.lattice) :
    /\ "create_grids" \in slv =>
         /\ ParentGridAsserts(c, a, p)
         /\ SubtreeSizeGridAsserts(c, a, p)
         /\ RegionIdGridAsserts(c, a, p)
         /\ RegionSizeGridAsserts(c, a, p)
    /\ "add_constraints" \in slv => AddConstraintsAsserts(c, a, p)
    /\ "add_rectangular_constraints" \in slv => RectangularAsserts(c, a, p)

----------------------------------------------------------------------------
(* z3's Solver.check and Solver.model, for the region variables.           *)
(* check() may return any assignment of the integer variables under which  *)
(* every assertion is true.  The assignments are enumerated by a search    *)
(* that decides one variable at a time and drops a partial assignment as   *)
(* soon as an assertion is false whatever the undecided variables become;  *)
(* what is left at the end is filtered by Satisfies.                       *)

\* the integers tried for a variable: a window around every value the
\* domain assertions of __create_grids allow
IntWindow(c) ==
  LET n == NumPoints(c.lattice)
      m == MaxRegionSize(c)
      hi == IF n >= m /\ n >= Len(ParentTypes) THEN n
            ELSE IF m >= Len(ParentTypes) THEN m ELSE Len(ParentTypes) IN
  (-2) .. (hi + 1)

EmptyAssignment ==
  [parent |-> <<>>, subtree_size |-> <<>>, region_id |-> <<>>,
   region_size |-> <<>>]

\* the assertions of the two constrainer methods on point p, as far as the
\* variables they read are decided
PointAsserts(c, slv, a, p) ==
  /\ "create_grids" \in slv =>
       /\ Has(a.parent, p) => ParentGridAsserts(c, a, p)
       /\ Has(a.subtree_size, p) => SubtreeSizeGridAsserts(c, a, p)
       /\ Has(a.region_id, p) => RegionIdGridAsserts(c, a, p)
       /\ Has(a.region_size, p) => RegionSizeGridAsserts(c, a, p)
  /\ "add_constraints" \in slv => AddConstraintsAsserts(c, a, p)

\* no assertion that reads a variable of point p is false
NotFalseAround(c, slv, a, p) ==
  /\ PointAsserts(c, slv, a, p)
  /\ \A q \in Neighbours(c, p) : Has(a.parent, q) => PointAsserts(c, slv, a, q)

\* the point of least index among the points S
Lowest(c, S) ==
  CHOOSE p \in S : \A q \in S :
    PointToIndex(c.lattice, p) <= PointToIndex(c.lattice, q)

\* the variable decided next in grid g: an undecided point among Ready if
\* there is one (an order that lets the assertions be evaluated early)
NextPoint(c, g, Ready) ==
  LET open == {p \in LatticePoints(c.lattice) : ~Has(g, p)} IN
  IF open \cap Ready # {} THEN Lowest(c, open \cap Ready) ELSE Lowest(c, open)

\* all parent grids no assertion rejects, decided in lattice order
RECURSIVE ParentStage(_, _, _, _)
ParentStage(c, slv, A, k) ==
  IF k = NumPoints(c.lattice) THEN A
  ELSE LET p == IndexToPoint(c.lattice, k) IN
       ParentStage(c, slv,
         {a2 \in {[a EXCEPT !.parent = @ @@ (p :> v)] :
                    a \in A, v \in IntWindow(c)} :
            NotFalseAround(c, slv, a2, p)},
         k + 1)

\* the subtree sizes, a point after the points that name it as parent
SubtreeStep(c, slv, a) ==
  LET p == NextPoint(c, a.subtree_size,
                     {q \in LatticePoints(c.lattice) : SumTermsKnown(c, a, q)}) IN
  {a2 \in {[a EXCEPT !.subtree_size = @ @@ (p :> v)] : v \in IntWindow(c)} :
     NotFalseAround(c, slv, a2, p)}

\* the region ids, a point after the point it names as parent
RegionIdStep(c, slv, a) ==
  LET p == NextPoint(c, a.region_id,
                     {q \in LatticePoints(c.lattice) :
                        \/ a.parent[q] \in {X, R}
                        \/ \E r \in Neighbours(c, q) :
                             Has(a.region_id, r) /\ NamesAsParent(a, q, r)}) IN
  {a2 \in {[a EXCEPT !.region_id = @ @@ (p :> v)] : v \in IntWindow(c)} :
     NotFalseAround(c, slv, a2, p)}

\* the region sizes, in the same order
RegionSizeStep(c, slv, a) ==
  LET p == NextPoint(c, a.region_size,
                     {q \in LatticePoints(c.lattice) :
                        \/ a.parent[q] \in {X, R}
                        \/ \E r \in Neighbours(c, q) :
                             Has(a.region_size, r) /\ NamesAsParent(a, q, r)}) IN
  {a2 \in {[a EXCEPT !.region_size = @ @@ (p :> v)] : v \in IntWindow(c)} :
     NotFalseAround(c, slv, a2, p)}

RECURSIVE SubtreeStage(_, _, _, _)
SubtreeStage(c, slv, A, k) ==
  IF k = NumPoints(c.lattice) THEN A
  ELSE SubtreeStage(c, slv, UNION {SubtreeStep(c, slv, a) : a \in A}, k + 1)

RECURSIVE RegionIdStage(_, _, _, _)
RegionIdStage(c, slv, A, k) ==
  IF k = NumPoints(c.lattice) THEN A
  ELSE RegionIdStage(c, slv, UNION {RegionIdStep(c, slv, a) : a \in A}, k + 1)

RECURSIVE RegionSizeStage(_, _, _, _)
RegionSizeStage(c, slv, A, k) ==
  IF k = NumPoints(c.lattice) THEN A
  ELSE RegionSizeStage(c, slv, UNION {RegionSizeStep(c, slv, a) : a \in A}, k + 1)

\* the assignments check() can return as the model
Models(c, slv) ==
  LET A1 == ParentStage(c, slv, {EmptyAssignment}, 0)
      A2 == SubtreeStage(c, slv, A1, 0)
      A3 == RegionIdStage(c, slv, A2, 0)
      A4 == RegionSizeStage(c, slv, A3, 0) IN
  {a \in A4 : Satisfies(c, slv, a)}

----------------------------------------------------------------------------
(* The RegionConstrainer's life: construction, then the solver's search *)

Lattices ==
  {l \in [h : 1 .. MaxCells, w : 1 .. MaxCells] : l.h * l.w <= MaxCells}

\* the values tried for min_region_size and max_region_size
MinArgs == {None, <<2>>}

MaxArgs == {None, <<2>>, <<3>>}

\* the lattices on which regions can fail to be rectangles, each with
\* its longer side as width
RectangularLattices ==
  {l \in [h : 2 .. MaxRectCells, w : 2 .. MaxRectCells] :
     l.h <= l.w /\ l.h * l.w <= MaxRectCells}

RectangularConfigs ==
  [lattice : RectangularLattices, complete : {TRUE}, rectangular : {TRUE},
   min_region_size : {None}, max_region_size : {None}]

\* rectangular=True together with complete=False
IncompleteRectangularConfigs ==
  [lattice : RectangularLattices, complete : {FALSE}, rectangular : {TRUE},
   min_region_size : {None}, max_region_size : {None}]

\* the scenario of a row of three cells that has to be one region
Row3 ==
  [lattice |-> [h |-> 1, w |-> 3], complete |-> TRUE,
   rectangular |-> FALSE,
   min_region_size |-> <<3>>, max_region_size |-> <<3>>]

RegionConfigs ==
  [lattice : Lattices, complete : BOOLEAN, rectangular : {FALSE},
   min_region_size : MinArgs, max_region_size : MaxArgs]
  \cup RectangularConfigs \cup {Row3}

\* RegionConstrainer.__init__
RegionConstrainerInit ==
  /\ pc = "new"
  /\ pc' = "constructed"
  /\ rsolver' = {"create_grids", "add_constraints"}
                \cup (IF rcfg.rectangular
                        THEN {"add_rectangular_constraints"} ELSE {})
  /\ UNCHANGED <<rcfg, rmodel>>
  /\ UNCHANGED qvars
  /\ UNCHANGED svars
  /\ UNCHANGED ovars

\* solver.check() returns sat with some model, or unsat
Check ==
  /\ pc = "constructed"
  /\ LET M == Models(rcfg, rsolver) IN
     IF M = {}
       THEN pc' = "unsat" /\ UNCHANGED rmodel
       ELSE pc' = "sat" /\ rmodel' \in M
  /\ UNCHANGED <<rcfg, rsolver>>
  /\ UNCHANGED qvars
  /\ UNCHANGED svars
  /\ UNCHANGED ovars

\* the region variables while no RegionConstrainer is studied
RegionIdle ==
  /\ rcfg = <<>>
  /\ rsolver = {}
  /\ rmodel = EmptyAssignment

\* the quadtree variables while no quadtree is studied
QuadIdle ==
  /\ qpoints = {}
  /\ qfuncs = <<>>
  /\ qexprs = <<>>
  /\ qhist = {}
  /\ qlast = <<>>

\* the shape variables while no ShapeConstrainer is studied
ShapeIdle ==
  /\ scfg = <<>>
  /\ ssolver = <<>>
  /\ smodel = <<>>

\* the other variables while none of their objects is studied
\* the variables of the shared solver while none is studied
SharedIdle ==
  /\ instance_index = <<>>
  /\ shared = <<>>

\* the path variables while no PathConstrainer is studied
PathIdle ==
  /\ pcfg = <<>>
  /\ psolver = {}
  /\ pmodel = <<>>

OthersIdle ==
  /\ gcfg = <<>>
  /\ gvariants = <<>>
  /\ SharedIdle
  /\ PathIdle

Init ==
  /\ pc = "new"
  /\ rcfg \in RegionConfigs
  /\ rsolver = {}
  /\ rmodel = EmptyAssignment
  /\ QuadIdle
  /\ ShapeIdle
  /\ OthersIdle

Next == RegionConstrainerInit \/ Check

Spec == Init /\ [][Next]_vars

\* the same operations on the constrainers built with rectangular=True
\* and complete=False
InitRect ==
  /\ pc = "new"
  /\ rcfg \in IncompleteRectangularConfigs
  /\ rsolver = {}
  /\ rmodel = EmptyAssignment
  /\ QuadIdle
  /\ ShapeIdle
  /\ OthersIdle

SpecRect == InitRect /\ [][Next]_vars

----------------------------------------------------------------------------
(* What a model of the region assertions means: regions, roots and chains *)

Points == LatticePoints(rcfg.lattice)

\* the points that carry region id i in the model
Region(i) == {p \in Points : rmodel.region_id[p] = i}

\* the region ids a lattice index can be
RegionIds == 0 .. NumPoints(rcfg.lattice) - 1

\* the parent value v is a direction tag
IsDirectionTag(v) == v >= 2 /\ v < Len(ParentTypes)

\* the point that p names as its parent (p carries a direction tag)
ParentPoint(g, p) == Translate(p, DirVector(ParentTypes[g[p] + 1]))

\* the points of S reached from the points F by edge-sharing steps inside S
RECURSIVE ReachableIn(_, _, _)
ReachableIn(S, F, k) ==
  IF k = 0 THEN F
  ELSE ReachableIn(S,
         F \cup {q \in S : \E p \in F : q \in Neighbours(rcfg, p)}, k - 1)

Connected(S) ==
  S = {} \/ \E p \in S : ReachableIn(S, {p}, Cardinality(S)) = S

\* following parent pointers from p reaches a point tagged R in at most k
\* steps, through lattice points that carry the region id of p
RECURSIVE ChainToRoot(_, _)
ChainToRoot(p, k) ==
  IF rmodel.parent[p] = R THEN TRUE
  ELSE IF k = 0 \/ ~IsDirectionTag(rmodel.parent[p]) THEN FALSE
  ELSE LET q == ParentPoint(rmodel.parent, p) IN
       /\ InLattice(rcfg.lattice, q)
       /\ rmodel.region_id[q] = rmodel.region_id[p]
       /\ ChainToRoot(q, k - 1)

\* the point reached from p by following k parent pointers; p itself when a
\* pointer on the way is no direction tag or leaves the lattice
RECURSIVE Ancestor(_, _)
Ancestor(p, k) ==
  IF k = 0 THEN p
  ELSE IF ~IsDirectionTag(rmodel.parent[p]) THEN p
  ELSE LET q == ParentPoint(rmodel.parent, p) IN
       IF InLattice(rcfg.lattice, q) THEN Ancestor(q, k - 1) ELSE p

\* p lies on a cycle of parent pointers
OnCycle(p) ==
  /\ IsDirectionTag(rmodel.parent[p])
  /\ \E k \in 1 .. NumPoints(rcfg.lattice) :
       /\ Ancestor(p, k) = p
       /\ \A j \in 0 .. k - 1 : IsDirectionTag(rmodel.parent[Ancestor(p, j)])

\* C1: in every model, the points sharing a region id >= 0 are connected
\* under edge-sharing adjacency, and each of them is linked to a root by a
\* chain of parent pointers that stays inside the region
C1_RegionSoundness ==
  pc = "sat" =>
    \A i \in RegionIds :
      /\ Connected(Region(i))
      /\ \A p \in Region(i) : ChainToRoot(p, NumPoints(rcfg.lattice))

\* a model with a region of three or more points, one of them two parent
\* pointers away from the root, beside another region
C1_Witness ==
  /\ pc = "sat"
  /\ \E i, j \in RegionIds :
       /\ i # j /\ Region(j) # {}
       /\ Cardinality(Region(i)) >= 3
       /\ \E p \in Region(i) :
            /\ IsDirectionTag(rmodel.parent[p])
            /\ IsDirectionTag(rmodel.parent[Ancestor(p, 1)])

\* C2: in every model, region_size at every in-region point is the number
\* of lattice points that carry the same region id
C2_RegionSizeAgreement ==
  pc = "sat" =>
    \A p \in Points :
      rmodel.region_id[p] >= 0 =>
        rmodel.region_size[p] = Cardinality(Region(rmodel.region_id[p]))

\* a model with two regions of different sizes, one of at least two points
C2_Witness ==
  /\ pc = "sat"
  /\ \E p, q \in Points :
       /\ rmodel.region_id[p] >= 0 /\ rmodel.region_id[q] >= 0
       /\ rmodel.region_size[p] >= 2
       /\ rmodel.region_size[q] # rmodel.region_size[p]

\* C3: in every model, each region holds exactly one point tagged R, and
\* the region id of the region is the lattice index of that point
C3_SingleRoot ==
  pc = "sat" =>
    \A i \in RegionIds :
      Region(i) # {} =>
        LET roots == {p \in Region(i) : rmodel.parent[p] = R} IN
        /\ Cardinality(roots) = 1
        /\ \A r \in roots : PointToIndex(rcfg.lattice, r) = i

\* a model with two regions, one of them rooted at a point that is not its
\* first point
C3_Witness ==
  /\ pc = "sat"
  /\ \E i, j \in RegionIds :
       /\ i # j /\ Region(i) # {} /\ Region(j) # {}
       /\ \E p \in Region(i) : PointToIndex(rcfg.lattice, p) < i

\* C4: no model contains a cycle of parent pointers (two adjacent points
\* naming each other, or a longer cycle)
C4_Acyclic ==
  pc = "sat" => \A p \in Points : ~OnCycle(p)

\* a model of the 2 x 2 lattice whose single region is a path around the
\* square: one more parent pointer would close the cycle
C4_Witness ==
  /\ pc = "sat"
  /\ rcfg.lattice = [h |-> 2, w |-> 2]
  /\ \E p \in Points :
       /\ \A j \in 0 .. 2 : IsDirectionTag(rmodel.parent[Ancestor(p, j)])
       /\ rmodel.parent[Ancestor(p, 3)] = R
       /\ Ancestor(p, 3) \in Neighbours(rcfg, p)

----------------------------------------------------------------------------
(* Rooted spanning forests, defined without the assertions *)

NoPoint == <<-1, -1>>

\* the root that parent grid g leads to from p in at most k steps, if any
RECURSIVE RootOf(_, _, _, _)
RootOf(lat, g, p, k) ==
  IF g[p] = R THEN p
  ELSE IF k = 0 \/ ~IsDirectionTag(g[p]) THEN NoPoint
  ELSE LET q == ParentPoint(g, p) IN
       IF InLattice(lat, q) THEN RootOf(lat, g, q, k - 1) ELSE NoPoint

\* the chain of parent pointers from q passes through p
RECURSIVE PassesThrough(_, _, _, _, _)
PassesThrough(lat, g, q, p, k) ==
  IF q = p THEN TRUE
  ELSE IF k = 0 \/ ~IsDirectionTag(g[q]) THEN FALSE
  ELSE LET r == ParentPoint(g, q) IN
       InLattice(lat, r) /\ PassesThrough(lat, g, r, p, k - 1)

\* the points of the tree rooted at r
TreeOf(lat, g, r) ==
  {p \in LatticePoints(lat) : RootOf(lat, g, p, NumPoints(lat)) = r}

\* p and the points below it
Subtree(lat, g, p) ==
  {q \in LatticePoints(lat) : PassesThrough(lat, g, q, p, NumPoints(lat))}

\* g is a rooted spanning forest of a partition of a subset of the lattice
\* (of the whole lattice when complete) into regions of admissible size:
\* every point is excluded, a root, or the child of a lattice neighbour, and
\* every point that is not excluded is led to a root
IsRootedForest(c, g) ==
  /\ \A p \in LatticePoints(c.lattice) :
       /\ c.complete => g[p] # X
       /\ g[p] # X => RootOf(c.lattice, g, p, NumPoints(c.lattice)) # NoPoint
  /\ \A r \in LatticePoints(c.lattice) :
       g[r] = R =>
         /\ Cardinality(TreeOf(c.lattice, g, r)) >= MinRegionSize(c)
         /\ Cardinality(TreeOf(c.lattice, g, r)) <= MaxRegionSize(c)

\* the assignment built from a rooted spanning forest
BuildFromForest(c, g) ==
  LET lat == c.lattice
      root(p) == RootOf(lat, g, p, NumPoints(lat)) IN
  [parent |-> g,
   subtree_size |->
     [p \in LatticePoints(lat) |->
        IF g[p] = X THEN 0 ELSE Cardinality(Subtree(lat, g, p))],
   region_id |->
     [p \in LatticePoints(lat) |->
        IF g[p] = X THEN -1 ELSE PointToIndex(lat, root(p))],
   region_size |->
     [p \in LatticePoints(lat) |->
        IF g[p] = X THEN -1 ELSE Cardinality(TreeOf(lat, g, root(p)))]]

ForestGrids(c) ==
  {g \in [LatticePoints(c.lattice) -> 0 .. Len(ParentTypes) - 1] :
     IsRootedForest(c, g)}

\* C5: the models are exactly the assignments built from rooted spanning
\* forests: every model is the assignment built from its own parent grid,
\* which is a rooted spanning forest, and the assignment built from any
\* rooted spanning forest satisfies every assertion
C5_Exactness ==
  /\ pc = "sat" =>
       /\ IsRootedForest(rcfg, rmodel.parent)
       /\ rmodel = BuildFromForest(rcfg, rmodel.parent)
  /\ (pc = "constructed" /\ ~rcfg.rectangular) =>
       \A g \in ForestGrids(rcfg) :
         Satisfies(rcfg, rsolver, BuildFromForest(rcfg, g))

\* a constructed constrainer that allows excluded points, for which some
\* forest has an excluded point, a region of one point and a region of
\* maximal size with a root that is not its first point
C5_Witness ==
  /\ pc = "constructed"
  /\ ~rcfg.complete
  /\ \E g \in ForestGrids(rcfg) :
       /\ \E p \in Points : g[p] = X
       /\ \E r \in Points :
            g[r] = R /\ Cardinality(TreeOf(rcfg.lattice, g, r)) = 1
       /\ \E r \in Points :
            /\ g[r] = R
            /\ Cardinality(TreeOf(rcfg.lattice, g, r)) = MaxRegionSize(rcfg)
            /\ \E q \in TreeOf(rcfg.lattice, g, r) :
                 PointToIndex(rcfg.lattice, q) < PointToIndex(rcfg.lattice, r)


\* C13: in every model the four grids agree on exclusion.  At every point,
\* parent = X, region_id = -1, region_size = -1 and subtree_size = 0 hold
\* together or not at all, and a point that is in a region has
\* region_id >= 0, region_size >= 1 and subtree_size >= 1
C13_ExclusionAgreement ==
  pc = "sat" =>
    \A p \in Points :
      /\ (rmodel.parent[p] = X) <=> (rmodel.region_id[p] = -1)
      /\ (rmodel.region_id[p] = -1) <=> (rmodel.region_size[p] = -1)
      /\ (rmodel.parent[p] = X) <=> (rmodel.subtree_size[p] = 0)
      /\ rmodel.parent[p] # X =>
           /\ rmodel.region_id[p] >= 0
           /\ rmodel.region_size[p] >= 1
           /\ rmodel.subtree_size[p] >= 1

\* a model of complete=False in which an excluded point lies beside a
\* point of a region of several points
C13_Witness ==
  /\ pc = "sat"
  /\ ~rcfg.complete
  /\ \E p, q \in Points :
       /\ rmodel.parent[p] = X
       /\ q \in Neighbours(rcfg, p)
       /\ rmodel.parent[q] # X
       /\ rmodel.region_size[q] >= 2


\* the assignment that excludes every point
AllExcluded ==
  [parent |-> [p \in Points |-> X],
   subtree_size |-> [p \in Points |-> 0],
   region_id |-> [p \in Points |-> -1],
   region_size |-> [p \in Points |-> -1]]

\* C14: with complete=True no point of a model has parent X, region id -1
\* or region size -1; with complete=False assignments with such points
\* satisfy the assertions, the one that excludes every point among them
C14_Completeness ==
  /\ (pc = "sat" /\ rcfg.complete) =>
       \A p \in Points :
         /\ rmodel.parent[p] # X
         /\ rmodel.region_id[p] # -1
         /\ rmodel.region_size[p] # -1
  /\ (pc = "constructed" /\ ~rcfg.complete) =>
       Satisfies(rcfg, rsolver, AllExcluded)
  /\ (pc = "constructed" /\ rcfg.complete) =>
       ~Satisfies(rcfg, rsolver, AllExcluded)

\* a model of complete=True on a lattice of MaxCells points, with
\* several regions whose sizes the arguments bound
C14_Witness ==
  /\ pc = "sat"
  /\ rcfg.complete
  /\ NumPoints(rcfg.lattice) = MaxCells
  /\ rcfg.max_region_size # None
  /\ Cardinality({p \in Points : rmodel.parent[p] = R}) >= 2


\* the least and the greatest number of points the arguments allow a
\* region to have: an omitted minimum is 1, an omitted maximum is the
\* number of lattice points
LeastSize ==
  IF rcfg.min_region_size = None THEN 1 ELSE rcfg.min_region_size[1]

GreatestSize ==
  IF rcfg.max_region_size = None THEN Cardinality(Points)
  ELSE rcfg.max_region_size[1]

\* C15: in every model, the number of points of every region lies between
\* min_region_size and max_region_size, and so does the region size
\* recorded at each of its points
C15_RegionSizeBounds ==
  pc = "sat" =>
    \A i \in RegionIds :
      Region(i) # {} =>
        /\ Cardinality(Region(i)) >= LeastSize
        /\ Cardinality(Region(i)) <= GreatestSize
        /\ \A p \in Region(i) :
             /\ rmodel.region_size[p] >= LeastSize
             /\ rmodel.region_size[p] <= GreatestSize

\* a model under a given minimum and a given maximum, with a region of
\* the greatest size beside a point that has to stay excluded
C15_Witness ==
  /\ pc = "sat"
  /\ rcfg.min_region_size # None
  /\ rcfg.max_region_size # None
  /\ LeastSize < GreatestSize
  /\ \E i \in RegionIds : Cardinality(Region(i)) = GreatestSize
  /\ \E p \in Points : rmodel.parent[p] = X

\* the points S are all the points of an axis-aligned rectangle
IsFilledRectangle(S) ==
  \E p, q \in S :
    S = {<<y, x>> : y \in p[1] .. q[1], x \in p[2] .. q[2]}

\* C16: with rectangular=True and complete=True on a full rectangular
\* lattice, in every model the points of every region are all the points
\* of an axis-aligned rectangle
C16_RectangularRegions ==
  (pc = "sat" /\ rcfg.rectangular /\ rcfg.complete) =>
    \A i \in RegionIds : Region(i) # {} => IsFilledRectangle(Region(i))

\* a model of rectangular=True with a square region of four points beside
\* a region that is a line, on a lattice of MaxRectCells points
C16_Witness ==
  /\ pc = "sat"
  /\ rcfg.rectangular /\ rcfg.complete
  /\ NumPoints(rcfg.lattice) = MaxRectCells
  /\ \E i, j \in RegionIds :
       /\ Region(i) = {<<0, 0>>, <<0, 1>>, <<1, 0>>, <<1, 1>>}
       /\ Cardinality(Region(j)) = 2


\* the points the model excludes
ExcludedPoints == {p \in Points : rmodel.region_id[p] = -1}

\* the 3x3 lattice with rectangular=True and complete=False, and the
\* assignment in which the centre cell is a region of its own and the
\* eight other cells are excluded
Grid3x3 ==
  [lattice |-> [h |-> 3, w |-> 3], complete |-> FALSE, rectangular |-> TRUE,
   min_region_size |-> None, max_region_size |-> None]

CentreAlone ==
  LET centre == <<1, 1>>
      pts == LatticePoints(Grid3x3.lattice) IN
  [parent |-> [p \in pts |-> IF p = centre THEN R ELSE X],
   subtree_size |-> [p \in pts |-> IF p = centre THEN 1 ELSE 0],
   region_id |->
     [p \in pts |->
        IF p = centre THEN PointToIndex(Grid3x3.lattice, centre) ELSE -1],
   region_size |-> [p \in pts |-> IF p = centre THEN 1 ELSE -1]]

C17_DirectionTagMeaning ==
  pc = "sat" =>
    \A q \in Points : \A i \in 1 .. Len(EdgeSharingDirections) :
      LET D == EdgeSharingDirections[i]
          parent == Translate(q, DirVector(D)) IN
      rmodel.parent[q] = EdgeSharingDirectionToIndex(D) =>
        /\ InLattice(rcfg.lattice, parent)
        /\ rmodel.parent[parent] # X
        /\ rmodel.region_id[parent] = rmodel.region_id[q]
        /\ rmodel.region_size[parent] = rmodel.region_size[q]

\* a model in which a vertical and a horizontal direction are tags of
\* points, one of them beside an excluded point
C17_Witness ==
  /\ pc = "sat"
  /\ \E q \in Points :
       rmodel.parent[q] \in {EdgeSharingDirectionToIndex("N"),
                             EdgeSharingDirectionToIndex("S")}
  /\ \E q \in Points :
       rmodel.parent[q] \in {EdgeSharingDirectionToIndex("E"),
                             EdgeSharingDirectionToIndex("W")}
  /\ \E q, x \in Points :
       /\ IsDirectionTag(rmodel.parent[q])
       /\ x \in Neighbours(rcfg, q)
       /\ rmodel.parent[x] = X


\* the assignment of the row with its root at column r: every other cell
\* points towards the root, and a cell's subtree is the cells from it away
\* from the root
RowAssignment(r) ==
  LET cells == {<<0, x>> : x \in 0 .. 2} IN
  [parent |->
     [p \in cells |->
        IF p[2] = r THEN R
        ELSE IF p[2] < r THEN EdgeSharingDirectionToIndex("E")
        ELSE EdgeSharingDirectionToIndex("W")],
   subtree_size |->
     [p \in cells |->
        IF p[2] = r THEN 3 ELSE IF p[2] < r THEN p[2] + 1 ELSE 3 - p[2]],
   region_id |-> [p \in cells |-> r],
   region_size |-> [p \in cells |-> 3]]

\* C18, as stated: on the row of three cells with min_region_size = 3,
\* max_region_size = 3 and complete=True the solver has exactly two
\* models, one region rooted at the left end with subtree sizes 3,2,1 and
\* one region rooted at the right end with subtree sizes 1,2,3
C18_RowRootAtEnd ==
  (rcfg = Row3 /\ pc \in {"sat", "unsat"}) =>
    /\ pc = "sat"
    /\ rmodel \in {RowAssignment(0), RowAssignment(2)}

\* C18, amended: the solver has exactly three models, each of them one
\* region of all three cells, rooted at the left end (subtree sizes
\* 3,2,1), at the right end (1,2,3) or at the middle cell (1,3,1)
C18_RowOneRegion ==
  /\ (rcfg = Row3 /\ pc = "constructed") =>
       Models(rcfg, rsolver) = {RowAssignment(r) : r \in 0 .. 2}
  /\ (rcfg = Row3 /\ pc \in {"sat", "unsat"}) =>
       /\ pc = "sat"
       /\ Cardinality(Region(rmodel.region_id[<<0, 0>>])) = 3
       /\ Cardinality({p \in Points : rmodel.parent[p] = R}) = 1

\* the model of the row whose root is the middle cell
C18_Witness ==
  /\ rcfg = Row3
  /\ pc = "sat"
  /\ rmodel.parent[<<0, 1>>] = R
  /\ rmodel.subtree_size = RowAssignment(1).subtree_size

----------------------------------------------------------------------------
(* quadtree.py: ExpressionQuadTree.  A node is identified by the set of    *)
(* points it was constructed from: the quadrants of a node partition its   *)
(* points, so no two nodes of one tree have the same points.  A point is   *)
(* <<y, x>>.  An expression is <<"atom", b, p>>, what builder b returns    *)
(* for point p, or <<"and", args>>, what fast_and returns for the          *)
(* sequence args.                                                          *)

Atom(b, p) == <<"atom", b, p>>

\* fastz3.fast_and applied to a sequence of expressions
FastAnd(args) == <<"and", args>>

IsLeaf(n) == Cardinality(n) = 1

\* _point of a leaf
LeafPoint(n) == CHOOSE p \in n : TRUE

YMin(n) == CHOOSE y \in {p[1] : p \in n} : \A p \in n : y <= p[1]

YMax(n) == CHOOSE y \in {p[1] : p \in n} : \A p \in n : y >= p[1]

XMin(n) == CHOOSE x \in {p[2] : p \in n} : \A p \in n : x <= p[2]

XMax(n) == CHOOSE x \in {p[2] : p \in n} : \A p \in n : x >= p[2]

\* p.y < _ymid and p.x < _xmid, the midpoints being halves of integers
AboveMid(n, p) == 2 * p[1] < YMin(n) + YMax(n)

LeftOfMid(n, p) == 2 * p[2] < XMin(n) + XMax(n)

\* which of _tl, _tr, _bl, _br the conditions of make() send p to
Quadrant(n, p) ==
  IF AboveMid(n, p)
    THEN (IF LeftOfMid(n, p) THEN "tl" ELSE "tr")
    ELSE (IF LeftOfMid(n, p) THEN "bl" ELSE "br")

\* the points of quadrant q of node n; the quadrant is None when empty
QuadPoints(n, q) == {p \in n : Quadrant(n, p) = q}

\* _quads: the quadrants that exist, in the order tl, tr, bl, br
Quads(n) ==
  SelectSeq(<<QuadPoints(n, "tl"), QuadPoints(n, "tr"),
              QuadPoints(n, "bl"), QuadPoints(n, "br")>>,
            LAMBDA c : c # {})

\* covers_point without the test against _xmax
CoversPoint_NoXMax(n, p) ==
  IF IsLeaf(n)
    THEN p = LeafPoint(n)
    ELSE /\ p[1] >= YMin(n) /\ p[1] <= YMax(n)
         /\ p[2] >= XMin(n)

\* covers_point
CoversPoint(n, p) ==
  IF IsLeaf(n)
    THEN p = LeafPoint(n)
    ELSE /\ p[1] >= YMin(n) /\ p[1] <= YMax(n)
         /\ p[2] >= XMin(n) /\ p[2] <= XMax(n)

\* add_expr that keeps the builder a key already has
WithExprFunc_KeepFirst(funcs, key, b) ==
  [k \in DOMAIN funcs \cup {key} |->
     IF k \in DOMAIN funcs THEN funcs[k] ELSE b]

\* add_expr: self.__expr_funcs[key] = expr_func
WithExprFunc(funcs, key, b) ==
  [k \in DOMAIN funcs \cup {key} |-> IF k = key THEN b ELSE funcs[k]]

\* self.__exprs.get(key) of node n
CachedExpr(exprs, n, key) ==
  IF <<n, key>> \in DOMAIN exprs THEN exprs[<<n, key>>] ELSE None

\* an expression that is built is not kept
StoreExpr_Dropped(exprs, n, key, e) == exprs

\* self.__exprs[key] = e of node n
StoreExpr(exprs, n, key, e) ==
  [k \in DOMAIN exprs \cup {<<n, key>>} |->
     IF k = <<n, key>> THEN e ELSE exprs[k]]

\* what a call returns: its value, the caches after it, and the exception
\* it raised ("" when it returned)
Returned(v, exprs) == [out |-> v, exprs |-> exprs, err |-> ""]

Raised(e, exprs) == [out |-> None, exprs |-> exprs, err |-> e]

\* the memoized expression of a leaf: the cached one, or the one the
\* builder registered under key makes now, which is then cached
LeafExpr(funcs, exprs, n, key) ==
  LET expr == CachedExpr(exprs, n, key) IN
  IF expr # None
    THEN Returned(expr, exprs)
    ELSE IF key \notin DOMAIN funcs
           THEN Raised("KeyError", exprs)
           ELSE LET e == Atom(funcs[key], LeafPoint(n)) IN
                Returned(e, StoreExpr(exprs, n, key, e))

RECURSIVE GetExprs(_, _, _, _)
RECURSIVE GetExprsOfQuads(_, _, _, _, _)

\* get_exprs, read to its end: the sequence of the leaves' expressions
GetExprs(funcs, exprs, n, key) ==
  IF IsLeaf(n)
    THEN LET r == LeafExpr(funcs, exprs, n, key) IN
         IF r.err # "" THEN r ELSE Returned(<<r.out>>, r.exprs)
    ELSE GetExprsOfQuads(funcs, exprs, Quads(n), 1, key)

GetExprsOfQuads(funcs, exprs, quads, i, key) ==
  IF i > Len(quads)
    THEN Returned(<<>>, exprs)
    ELSE LET r == GetExprs(funcs, exprs, quads[i], key) IN
         IF r.err # ""
           THEN r
           ELSE LET rest == GetExprsOfQuads(funcs, r.exprs, quads, i + 1, key) IN
                IF rest.err # ""
                  THEN rest
                  ELSE Returned(r.out \o rest.out, rest.exprs)

\* a leaf asked for a point that is not its own returns the expression of
\* its own point
GetPointExprLeaf_AnyPoint(funcs, exprs, n, key, p) ==
  LeafExpr(funcs, exprs, n, key)

\* get_point_expr at a leaf
GetPointExprLeaf(funcs, exprs, n, key, p) ==
  IF LeafPoint(n) = p
    THEN LeafExpr(funcs, exprs, n, key)
    ELSE Raised("ValueError", exprs)

RECURSIVE GetPointExpr(_, _, _, _, _)

\* get_point_expr
GetPointExpr(funcs, exprs, n, key, p) ==
  IF IsLeaf(n)
    THEN GetPointExprLeaf(funcs, exprs, n, key, p)
    ELSE LET q == QuadPoints(n, Quadrant(n, p)) IN
         IF q # {}
           THEN GetPointExpr(funcs, exprs, q, key, p)
           ELSE Raised("ValueError", exprs)

RECURSIVE GetOtherPointsExpr(_, _, _, _, _)
RECURSIVE OtherPointsTerms(_, _, _, _, _, _)

\* get_other_points_expr
GetOtherPointsExpr(funcs, exprs, n, key, points) ==
  IF IsLeaf(n)
    THEN IF LeafPoint(n) \notin points
           THEN GetPointExpr(funcs, exprs, n, key, LeafPoint(n))
           ELSE Returned(None, exprs)
    ELSE LET covered_points == {p \in points : CoversPoint(n, p)} IN
         IF covered_points # {}
           THEN LET r == OtherPointsTerms(funcs, exprs, Quads(n), 1, key,
                                          covered_points) IN
                IF r.err # "" THEN r ELSE Returned(FastAnd(r.out), r.exprs)
           ELSE LET expr == CachedExpr(exprs, n, key) IN
                IF expr # None
                  THEN Returned(expr, exprs)
                  ELSE LET r == GetExprs(funcs, exprs, n, key) IN
                       IF r.err # ""
                         THEN r
                         ELSE Returned(FastAnd(r.out),
                                       StoreExpr(r.exprs, n, key,
                                                 FastAnd(r.out)))

\* the loop over _quads that collects the terms that are not None
OtherPointsTerms(funcs, exprs, quads, i, key, covered_points) ==
  IF i > Len(quads)
    THEN Returned(<<>>, exprs)
    ELSE LET r == GetOtherPointsExpr(funcs, exprs, quads[i], key,
                                     covered_points) IN
         IF r.err # ""
           THEN r
           ELSE LET rest == OtherPointsTerms(funcs, r.exprs, quads, i + 1,
                                             key, covered_points) IN
                IF rest.err # ""
                  THEN rest
                  ELSE Returned((IF r.out # None THEN <<r.out>> ELSE <<>>)
                                  \o rest.out,
                                rest.exprs)

----------------------------------------------------------------------------
(* The life of an ExpressionQuadTree: it is constructed from a list of     *)
(* points and a dictionary of builders, and then add_expr, get_exprs,      *)
(* get_point_expr and get_other_points_expr are called on its root.        *)

\* the points quadtrees are built from: their subsets give quadrants that
\* are leaves, quadrants that are inner nodes, missing quadrants and holes
TreeGrid == {<<0, 0>>, <<0, 1>>, <<0, 2>>, <<1, 1>>}

\* points no quadtree of the model contains: <<1, 0>> is inside the
\* bounding box of some of them, <<3, 3>> is outside of every one
ForeignPoints == {<<1, 0>>, <<3, 3>>}

Keys == {"k1", "k2"}

Builders == {"f", "g"}

\* the expr_funcs argument of the constructor (None gives the empty one)
ExprFuncsArgs ==
  {<<>>, [k \in {"k1"} |-> "f"]}

\* the lists of points get_other_points_expr is called with: any points
\* of the tree, with or without a point that is not in the tree
ExcludedLists ==
  {T \cup E : T \in SUBSET qpoints,
              E \in {{}} \cup {{p} : p \in ForeignPoints}}

\* the calls made so far
NumCalls == IF qlast = <<>> THEN 0 ELSE qlast.n

Call(op, key, arg, r) ==
  [op |-> op, key |-> key, arg |-> arg, out |-> r.out, err |-> r.err,
   n |-> NumCalls + 1]

\* a constructor that does not look at the length of the point list
QuadTreeInit_Unchecked ==
  /\ pc = "qnew"
  /\ pc' = "qready"
  /\ qhist' = {<<k, qfuncs[k]>> : k \in DOMAIN qfuncs}
  /\ UNCHANGED <<qpoints, qfuncs, qexprs, qlast>>
  /\ UNCHANGED rvars
  /\ UNCHANGED svars
  /\ UNCHANGED ovars

\* ExpressionQuadTree(points, expr_funcs)
QuadTreeInit ==
  /\ pc = "qnew"
  /\ pc' = IF qpoints = {} THEN "qraised" ELSE "qready"
  /\ qhist' = {<<k, qfuncs[k]>> : k \in DOMAIN qfuncs}
  /\ UNCHANGED <<qpoints, qfuncs, qexprs, qlast>>
  /\ UNCHANGED rvars
  /\ UNCHANGED svars
  /\ UNCHANGED ovars

\* add_expr(key, expr_func)
AddExpr ==
  /\ pc = "qready"
  /\ NumCalls < MaxCalls
  /\ \E key \in Keys, b \in Builders :
       /\ qfuncs' = WithExprFunc(qfuncs, key, b)
       /\ qhist' = qhist \cup {<<key, b>>}
       /\ qlast' = Call("add_expr", key, b, Returned(None, qexprs))
  /\ UNCHANGED <<pc, qpoints, qexprs>>
  /\ UNCHANGED rvars
  /\ UNCHANGED svars
  /\ UNCHANGED ovars

\* list(get_exprs(key))
CallGetExprs ==
  /\ pc = "qready"
  /\ NumCalls < MaxCalls
  /\ \E key \in Keys :
       LET r == GetExprs(qfuncs, qexprs, qpoints, key) IN
       /\ qexprs' = r.exprs
       /\ qlast' = Call("get_exprs", key, <<>>, r)
  /\ UNCHANGED <<pc, qpoints, qfuncs, qhist>>
  /\ UNCHANGED rvars
  /\ UNCHANGED svars
  /\ UNCHANGED ovars

\* get_point_expr(key, p)
CallGetPointExpr ==
  /\ pc = "qready"
  /\ NumCalls < MaxCalls
  /\ \E key \in Keys, p \in TreeGrid \cup ForeignPoints :
       LET r == GetPointExpr(qfuncs, qexprs, qpoints, key, p) IN
       /\ qexprs' = r.exprs
       /\ qlast' = Call("get_point_expr", key, p, r)
  /\ UNCHANGED <<pc, qpoints, qfuncs, qhist>>
  /\ UNCHANGED rvars
  /\ UNCHANGED svars
  /\ UNCHANGED ovars

\* get_other_points_expr(key, points)
CallGetOtherPointsExpr ==
  /\ pc = "qready"
  /\ NumCalls < MaxCalls
  /\ \E key \in Keys, points \in ExcludedLists :
       LET r == GetOtherPointsExpr(qfuncs, qexprs, qpoints, key, points) IN
       /\ qexprs' = r.exprs
       /\ qlast' = Call("get_other_points_expr", key, points, r)
  /\ UNCHANGED <<pc, qpoints, qfuncs, qhist>>
  /\ UNCHANGED rvars
  /\ UNCHANGED svars
  /\ UNCHANGED ovars

\* covers_point(p) on the root
CallCoversPoint ==
  /\ pc = "qready"
  /\ NumCalls < MaxCalls
  /\ \E p \in TreeGrid \cup ForeignPoints :
       qlast' = Call("covers_point", None, p,
                     Returned(CoversPoint(qpoints, p), qexprs))
  /\ UNCHANGED <<pc, qpoints, qfuncs, qexprs, qhist>>
  /\ UNCHANGED rvars
  /\ UNCHANGED svars
  /\ UNCHANGED ovars

InitQuad ==
  /\ pc = "qnew"
  /\ RegionIdle
  /\ qpoints \in {T \in SUBSET TreeGrid : Cardinality(T) <= MaxTreePoints}
  /\ qfuncs \in ExprFuncsArgs
  /\ qexprs = <<>>
  /\ qhist = {}
  /\ qlast = <<>>
  /\ ShapeIdle
  /\ OthersIdle

NextQuad ==
  \/ QuadTreeInit
  \/ AddExpr
  \/ CallGetExprs
  \/ CallGetPointExpr
  \/ CallGetOtherPointsExpr
  \/ CallCoversPoint

SpecQuad == InitQuad /\ [][NextQuad]_vars

----------------------------------------------------------------------------
(* shapes.py: Shape and ShapeConstrainer.  A shape is the sequence of its  *)
(* offset vectors <<dy, dx>>; the shapes of the model carry no payloads.   *)

HAS_INSTANCE_ID == 0

NOT_HAS_INSTANCE_ID == 1

HAS_SHAPE_TYPE == 2

\* Vector.negate
Negate(v) == <<-v[1], -v[2]>>

\* every rotation and reflection, whether allowed or not
TransformationFunctions_All(allow_rotations, allow_reflections) ==
  << <<1, 0, 0, 1>>, <<1, 0, 0, -1>>, <<-1, 0, 0, 1>>, <<-1, 0, 0, -1>>,
     <<0, 1, 1, 0>>, <<0, 1, -1, 0>>, <<0, -1, 1, 0>>, <<0, -1, -1, 0>> >>

\* RectangularLattice.transformation_functions: the function f stands for
\* lambda v: Vector(f[1] * v.dy + f[2] * v.dx, f[3] * v.dy + f[4] * v.dx)
TransformationFunctions(allow_rotations, allow_reflections) ==
  IF allow_rotations
    THEN IF allow_reflections
           THEN << <<1, 0, 0, 1>>, <<1, 0, 0, -1>>, <<-1, 0, 0, 1>>,
                   <<-1, 0, 0, -1>>, <<0, 1, 1, 0>>, <<0, 1, -1, 0>>,
                   <<0, -1, 1, 0>>, <<0, -1, -1, 0>> >>
           ELSE << <<1, 0, 0, 1>>, <<0, 1, -1, 0>>, <<-1, 0, 0, -1>>,
                   <<0, -1, 1, 0>> >>
    ELSE IF allow_reflections
           THEN << <<1, 0, 0, 1>>, <<1, 0, 0, -1>>, <<-1, 0, 0, 1>> >>
           ELSE << <<1, 0, 0, 1>> >>

\* FlatToppedHexagonalLattice.transformation_functions: a function f of
\* five numbers stands for lambda v: Vector((f[1] * v.dy + f[2] * v.dx)
\* // f[5], (f[3] * v.dy + f[4] * v.dx) // f[5])
FlatToppedTransformationFunctions(allow_rotations, allow_reflections) ==
  LET rotations ==
        << <<1, 0, 0, 1>>, <<1, 3, -1, 1, 2>>, <<-1, 3, -1, -1, 2>>,
           <<-1, 0, 0, -1>>, <<-1, -3, 1, -1, 2>>, <<1, -3, 1, 1, 2>> >>
      reflections ==
        << <<-1, 0, 0, 1>>, <<-1, -3, -1, 1, 2>>, <<1, -3, -1, -1, 2>>,
           <<1, 0, 0, -1>>, <<1, 3, 1, -1, 2>>, <<-1, 3, 1, 1, 2>> >> IN
  IF allow_rotations
    THEN IF allow_reflections THEN rotations \o reflections ELSE rotations
    ELSE IF allow_reflections
           THEN << <<1, 0, 0, 1>> >> \o reflections
           ELSE << <<1, 0, 0, 1>> >>

\* PointyToppedHexagonalLattice.transformation_functions
PointyToppedTransformationFunctions(allow_rotations, allow_reflections) ==
  LET rotations ==
        << <<1, 0, 0, 1>>, <<1, 1, -3, 1, 2>>, <<-1, 1, -3, -1, 2>>,
           <<-1, 0, 0, -1>>, <<-1, -1, 3, -1, 2>>, <<1, -1, 3, 1, 2>> >>
      reflections ==
        << <<-1, 0, 0, 1>>, <<-1, -1, -3, 1, 2>>, <<1, -1, -3, -1, 2>>,
           <<1, 0, 0, -1>>, <<1, 1, 3, -1, 2>>, <<-1, 1, 3, 1, 2>> >> IN
  IF allow_rotations
    THEN IF allow_reflections THEN rotations \o reflections ELSE rotations
    ELSE IF allow_reflections
           THEN reflections
           ELSE << <<1, 0, 0, 1>> >>

\* lattice.transformation_functions of an object of the given class
LatticeTransformationFunctions(class, allow_rotations, allow_reflections) ==
  CASE class = "RectangularLattice" ->
         TransformationFunctions(allow_rotations, allow_reflections)
    [] class = "FlatToppedHexagonalLattice" ->
         FlatToppedTransformationFunctions(allow_rotations, allow_reflections)
    [] class = "PointyToppedHexagonalLattice" ->
         PointyToppedTransformationFunctions(allow_rotations,
                                             allow_reflections)

\* f(v); the division is Python's //, which rounds down
ApplyTransformation(f, v) ==
  IF Len(f) = 5
    THEN <<(f[1] * v[1] + f[2] * v[2]) \div f[5],
           (f[3] * v[1] + f[4] * v[2]) \div f[5]>>
    ELSE <<f[1] * v[1] + f[2] * v[2], f[3] * v[1] + f[4] * v[2]>>

\* Shape.__init__ for a list of Vectors: an offset tuple is <<v, payload>>,
\* and the payload of a bare Vector is None
Shape(offsets) == [j \in 1 .. Len(offsets) |-> <<offsets[j], None>>]

\* Shape.__init__ for a list of (Vector, payload) tuples with integer
\* payloads: the payload n is held as <<n>>
ShapeWithPayloads(offsets) ==
  [j \in 1 .. Len(offsets) |-> <<offsets[j][1], <<offsets[j][2]>>>>]

\* Shape.transform
Transform(shape, f) ==
  [j \in 1 .. Len(shape) |->
     <<ApplyTransformation(f, shape[j][1]), shape[j][2]>>]

\* the order of Vector tuples
VectorLess(u, v) == u[1] < v[1] \/ (u[1] = v[1] /\ u[2] < v[2])

RECURSIVE SortedOffsets(_)

\* sorted(offset_tuples, key=lambda t: t[0])
SortedOffsets(shape) ==
  IF Len(shape) <= 1
    THEN shape
    ELSE LET i == CHOOSE i \in 1 .. Len(shape) :
                    /\ \A j \in 1 .. Len(shape) :
                         ~VectorLess(shape[j][1], shape[i][1])
                    /\ \A j \in 1 .. i - 1 : shape[j][1] # shape[i][1]
             rest == SubSeq(shape, 1, i - 1) \o SubSeq(shape, i + 1, Len(shape))
         IN <<shape[i]>> \o SortedOffsets(rest)

\* canonicalize that moves the first listed offset to (0, 0) and does
\* not sort
Canonicalize_Unsorted(shape) ==
  [j \in 1 .. Len(shape) |->
     <<Translate(shape[j][1], Negate(shape[1][1])), shape[j][2]>>]

\* Shape.canonicalize
Canonicalize(shape) ==
  LET offset_tuples == SortedOffsets(shape)
      first_negated == Negate(offset_tuples[1][1]) IN
  [j \in 1 .. Len(offset_tuples) |->
     <<Translate(offset_tuples[j][1], first_negated), offset_tuples[j][2]>>]

\* equivalent that does not look at the payloads
Equivalent_VectorsOnly(shape1, shape2) ==
  /\ Len(shape1) = Len(shape2)
  /\ \A j \in 1 .. Len(shape1) : shape1[j][1] = shape2[j][1]

\* Shape.equivalent: the same vectors with the same payloads, in order
Equivalent(shape1, shape2) ==
  /\ Len(shape1) = Len(shape2)
  /\ \A j \in 1 .. Len(shape1) :
       /\ shape1[j][1] = shape2[j][1]
       /\ shape1[j][2] = shape2[j][2]

RECURSIVE ShapeVariants(_, _, _, _)

\* __make_variants, inner loop: the variants of one shape
ShapeVariants(shape, fs, i, shape_variants) ==
  IF i > Len(fs)
    THEN shape_variants
    ELSE LET variant == Canonicalize(Transform(shape, fs[i])) IN
         ShapeVariants(shape, fs, i + 1,
           IF \E k \in 1 .. Len(shape_variants) :
                Equivalent(variant, shape_variants[k])
             THEN shape_variants
             ELSE Append(shape_variants, variant))

\* __make_variants: self.__variants
MakeVariants(c) ==
  LET fs == TransformationFunctions(c.allow_rotations, c.allow_reflections) IN
  [s \in 1 .. Len(c.shapes) |-> ShapeVariants(c.shapes[s], fs, 1, <<>>)]

\* z3's Or applied to a sequence of expressions
Or(args) == <<"or", args>>

\* the keys __add_shape_instance_constraints registers, in its order; the
\* builder of a key is a lambda that holds the key's index, so the key
\* itself stands for it
ShapeExprKeys(c) ==
  LET n == NumPoints(c.lattice) IN
  [k \in 1 .. 2 * n |->
     IF k % 2 = 1 THEN <<HAS_INSTANCE_ID, (k - 1) \div 2>>
                  ELSE <<NOT_HAS_INSTANCE_ID, (k - 1) \div 2>>]
  \o [k \in 1 .. Len(c.shapes) |-> <<HAS_SHAPE_TYPE, k - 1>>]

RECURSIVE AddExprs(_, _, _)

\* the add_expr calls of __add_shape_instance_constraints
AddExprs(funcs, keys, k) ==
  IF k > Len(keys)
    THEN funcs
    ELSE AddExprs(WithExprFunc(funcs, keys[k], keys[k]), keys, k + 1)

\* __create_grids: the payload grid exists when the first offset of the
\* first shape has a payload
HasPayloadGrid(c) == c.shapes[1][1][2] # None

\* Python's False, what z3's == returns when compared with None
PyFalse == <<"False">>

\* (mutant) every point of a footprint is given the first payload
PayloadTerm_First(tuples, j) ==
  IF tuples[1][2] = None
    THEN PyFalse
    ELSE <<"payload", tuples[j][1], tuples[1][2][1]>>

\* self.__shape_payload_grid[point] == payload, for the j-th point: the
\* payload variable of the point equals the payload of the offset
PayloadTerm(tuples, j) ==
  IF tuples[j][2] = None
    THEN PyFalse
    ELSE <<"payload", tuples[j][1], tuples[j][2][1]>>

RECURSIVE FootprintTerms(_, _, _, _, _, _, _, _)

\* the and_terms of the points a variant covers: for each point, that it
\* has the instance id, that it has the shape type and, when there is a
\* payload grid, that it has the payload of its offset
FootprintTerms(c, funcs, exprs, tree, instance_id, shape_index, tuples, j) ==
  IF j > Len(tuples)
    THEN Returned(<<>>, exprs)
    ELSE LET r1 == GetPointExpr(funcs, exprs, tree,
                                <<HAS_INSTANCE_ID, instance_id>>, tuples[j][1])
             r2 == GetPointExpr(funcs, r1.exprs, tree,
                                <<HAS_SHAPE_TYPE, shape_index>>, tuples[j][1])
             r3 == IF HasPayloadGrid(c) THEN <<PayloadTerm(tuples, j)>>
                                        ELSE <<>>
             rest == FootprintTerms(c, funcs, r2.exprs, tree, instance_id,
                                    shape_index, tuples, j + 1)
         IN IF r1.err # "" THEN r1
            ELSE IF r2.err # "" THEN r2
            ELSE IF rest.err # "" THEN rest
            ELSE Returned(<<r1.out, r2.out>> \o r3 \o rest.out, rest.exprs)

\* an option that leaves the points outside of the footprint free
OptionExpr_FootprintOnly(terms, other) == FastAnd(terms)

\* the option of a root point: the terms of the footprint and that no
\* other point has the instance id
OptionExpr(terms, other) == FastAnd(Append(terms, other))

\* the body of the loop over root points: st holds the quadtree's caches,
\* root_options and the exception raised so far
AddRootOption(c, funcs, st, shape_index, variant, root_point) ==
  LET lat == c.lattice
      tree == LatticePoints(lat)
      instance_id == PointToIndex(lat, root_point)
      point_payload_tuples ==
        [j \in 1 .. Len(variant) |->
           <<Translate(root_point, variant[j][1]), variant[j][2]>>]
  IN
  IF \/ Len(point_payload_tuples) = 0
     \/ \E j \in 1 .. Len(point_payload_tuples) :
          ~InLattice(lat, point_payload_tuples[j][1])
    THEN st
    ELSE LET terms == FootprintTerms(c, funcs, st.exprs, tree, instance_id,
                                     shape_index, point_payload_tuples, 1)
             other == GetOtherPointsExpr(funcs, terms.exprs, tree,
                        <<NOT_HAS_INSTANCE_ID, instance_id>>,
                        {point_payload_tuples[j][1] :
                           j \in 1 .. Len(point_payload_tuples)})
         IN IF terms.err # ""
              THEN [st EXCEPT !.exprs = terms.exprs, !.err = terms.err]
            ELSE IF other.err # ""
              THEN [st EXCEPT !.exprs = other.exprs, !.err = other.err]
            ELSE IF \/ other.out = None
                    \/ \E j \in 1 .. Len(terms.out) : terms.out[j] = PyFalse
              \* fast_and calls as_ast() on each of its arguments
              THEN [st EXCEPT !.exprs = other.exprs, !.err = "AttributeError"]
            ELSE [st EXCEPT
                    !.exprs = other.exprs,
                    !.root_options[root_point] =
                      Append(@, OptionExpr(terms.out, other.out))]

RECURSIVE VariantList(_, _)

\* the pairs of the two outer loops: shape index and variant
VariantList(variants, s) ==
  IF s > Len(variants)
    THEN <<>>
    ELSE [k \in 1 .. Len(variants[s]) |-> <<s - 1, variants[s][k]>>]
         \o VariantList(variants, s + 1)

RECURSIVE AddRootOptions(_, _, _, _, _)

\* the three nested loops that fill root_options
AddRootOptions(c, funcs, st, pairs, t) ==
  LET n == NumPoints(c.lattice) IN
  IF t >= Len(pairs) * n \/ st.err # ""
    THEN st
    ELSE LET pair == pairs[t \div n + 1] IN
         AddRootOptions(c, funcs,
           AddRootOption(c, funcs, st, pair[1], pair[2],
                         IndexToPoint(c.lattice, t % n)),
           pairs, t + 1)

RECURSIVE AddPointAsserts(_, _, _, _, _)

\* the last loop: one assertion per point p, that one of the options
\* rooted at p holds or no point has p's index as its instance id
AddPointAsserts(c, funcs, st, asserts, i) ==
  IF i >= NumPoints(c.lattice) \/ st.err # ""
    THEN [asserts |-> asserts, err |-> st.err]
    ELSE LET p == IndexToPoint(c.lattice, i)
             r == GetOtherPointsExpr(funcs, st.exprs, LatticePoints(c.lattice),
                                     <<NOT_HAS_INSTANCE_ID, i>>, {})
             or_terms == st.root_options[p]
         IN AddPointAsserts(c, funcs,
              [st EXCEPT !.exprs = r.exprs, !.err = r.err],
              IF r.err # "" THEN asserts
              ELSE IF or_terms # <<>>
                THEN Append(asserts, Or(Append(or_terms, r.out)))
                ELSE Append(asserts, r.out),
              i + 1)

\* __add_shape_instance_constraints: the assertions it adds, or the
\* exception it raises
ShapeInstanceConstraints(c) ==
  LET funcs == AddExprs(<<>>, ShapeExprKeys(c), 1)
      st0 == [exprs |-> <<>>,
              root_options |-> [p \in LatticePoints(c.lattice) |-> <<>>],
              err |-> ""]
      st == AddRootOptions(c, funcs, st0, VariantList(MakeVariants(c), 1), 0)
  IN AddPointAsserts(c, funcs, st, <<>>, 0)

\* what the builder of key b asserts of point p, as far as the variable
\* it reads is decided in assignment a
AtomNotFalse(a, b, p) ==
  IF b[1] = HAS_INSTANCE_ID
    THEN Has(a.shape_instance, p) => a.shape_instance[p] = b[2]
  ELSE IF b[1] = NOT_HAS_INSTANCE_ID
    THEN Has(a.shape_instance, p) => a.shape_instance[p] # b[2]
  ELSE Has(a.shape_type, p) => a.shape_type[p] = b[2]

RECURSIVE ExprNotFalse(_, _)

\* no decided variable makes expression e false; for an assignment that
\* decides every variable this is the truth value of e
ExprNotFalse(e, a) ==
  IF e[1] = "atom" THEN AtomNotFalse(a, e[2], e[3])
  ELSE IF e[1] = "payload"
    THEN Has(a.shape_payload, e[2]) => a.shape_payload[e[2]] = e[3]
  ELSE IF e[1] = "and"
    THEN \A i \in 1 .. Len(e[2]) : ExprNotFalse(e[2][i], a)
  ELSE \E i \in 1 .. Len(e[2]) : ExprNotFalse(e[2][i], a)

\* __create_grids: the range of a shape type
ShapeTypeGridAsserts(c, a, p) ==
  Has(a.shape_type, p) =>
    /\ IF c.complete THEN a.shape_type[p] >= 0 ELSE a.shape_type[p] >= -1
    /\ a.shape_type[p] < Len(c.shapes)

\* __create_grids: the range of a shape instance id
ShapeInstanceGridAsserts(c, a, p) ==
  Has(a.shape_instance, p) =>
    /\ IF c.complete THEN a.shape_instance[p] >= 0
                     ELSE a.shape_instance[p] >= -1
    /\ a.shape_instance[p] < NumPoints(c.lattice)

\* __add_grid_agreement_constraints
GridAgreementAsserts(a, p) ==
  (Has(a.shape_type, p) /\ Has(a.shape_instance, p)) =>
    \/ a.shape_type[p] = -1 /\ a.shape_instance[p] = -1
    \/ a.shape_type[p] # -1 /\ a.shape_instance[p] # -1

\* __add_single_copy_constraints: PbEq over the points, which no decided
\* point may have made unreachable
SingleCopyAsserts(c, a, shape_index) ==
  LET pts == LatticePoints(c.lattice)
      yes == Cardinality({p \in pts : Has(a.shape_type, p)
                                       /\ a.shape_type[p] = shape_index})
      open == Cardinality({p \in pts : ~Has(a.shape_type, p)})
      k == Len(c.shapes[shape_index + 1]) IN
  yes <= k /\ k <= yes + open

\* the variable a cell of the SymbolGrid is bound to by cell_is: the shape
\* type or the shape payload of its point
CellGrid(c, a) ==
  IF c.cells = "shape_payload" THEN a.shape_payload ELSE a.shape_type

\* SymbolGrid.__init__ and cell_is: the cell of p is a symbol index and
\* equals the variable it is bound to
SymbolGridAsserts(c, a, p) ==
  Has(CellGrid(c, a), p) =>
    /\ CellGrid(c, a)[p] >= c.symbols[1]
    /\ CellGrid(c, a)[p] <= c.symbols[2]

\* (mutant) every cell has to differ from its value in the model grid
DiffersFrom_Everywhere(c, a, grid) ==
  \A p \in LatticePoints(c.lattice) :
    Has(CellGrid(c, a), p) => CellGrid(c, a)[p] # grid[p]

\* is_unique: some cell differs from its value in the model grid
DiffersFrom(c, a, grid) ==
  \E p \in LatticePoints(c.lattice) :
    Has(CellGrid(c, a), p) => CellGrid(c, a)[p] # grid[p]

\* the assertions in solver slv that no decided variable of a makes false
ShapeAsserts(c, slv, a) ==
  /\ \A p \in LatticePoints(c.lattice) :
       /\ "create_grids" \in slv.groups =>
            ShapeTypeGridAsserts(c, a, p) /\ ShapeInstanceGridAsserts(c, a, p)
       /\ "grid_agreement" \in slv.groups => GridAgreementAsserts(a, p)
       /\ "symbol_grid" \in slv.groups => SymbolGridAsserts(c, a, p)
  /\ "single_copy" \in slv.groups =>
       \A shape_index \in 0 .. Len(c.shapes) - 1 :
         SingleCopyAsserts(c, a, shape_index)
  /\ \A grid \in slv.excluded : DiffersFrom(c, a, grid)
  /\ \A i \in 1 .. Len(slv.instance) : ExprNotFalse(slv.instance[i], a)

\* the values the solver tries for a shape type and for an instance id
ShapeTypeWindow(c) == (-2) .. Len(c.shapes)

ShapeInstanceWindow(c) == (-2) .. NumPoints(c.lattice)

\* the payloads of the shapes' offsets
Payloads(c) ==
  UNION {{c.shapes[s][j][2][1] :
            j \in {j \in 1 .. Len(c.shapes[s]) : c.shapes[s][j][2] # None}} :
         s \in 1 .. Len(c.shapes)}

\* the values the solver tries for a payload variable, an integer that
\* only the options bound: every payload, and a value that is none
ShapePayloadWindow(c) ==
  LET P == Payloads(c) IN
  P \cup {CHOOSE n \in 0 .. Cardinality(P) : n \notin P}

RECURSIVE ShapeStage(_, _, _, _)

\* the assignments of the first i points that no assertion rejects
ShapeStage(c, slv, A, i) ==
  IF i >= NumPoints(c.lattice)
    THEN A
    ELSE LET p == IndexToPoint(c.lattice, i)
             ext(a, t, k) ==
               [shape_type |->
                  [q \in DOMAIN a.shape_type \cup {p} |->
                     IF q = p THEN t ELSE a.shape_type[q]],
                shape_instance |->
                  [q \in DOMAIN a.shape_instance \cup {p} |->
                     IF q = p THEN k ELSE a.shape_instance[q]],
                shape_payload |-> a.shape_payload]
             payload(a, v) ==
               [a EXCEPT !.shape_payload =
                  [q \in DOMAIN a.shape_payload \cup {p} |->
                     IF q = p THEN v ELSE a.shape_payload[q]]]
             typed == {ext(a, t, k) : a \in A, t \in ShapeTypeWindow(c),
                                      k \in ShapeInstanceWindow(c)}
             cand == IF HasPayloadGrid(c)
                       THEN {payload(a, v) :
                               a \in {a \in typed : ShapeAsserts(c, slv, a)},
                               v \in ShapePayloadWindow(c)}
                       ELSE typed
         IN ShapeStage(c, slv, {a \in cand : ShapeAsserts(c, slv, a)}, i + 1)

\* the payload grid stays empty when the shapes have no payloads
EmptyShapeAssignment ==
  [shape_type |-> <<>>, shape_instance |-> <<>>, shape_payload |-> <<>>]

\* the models of the assertions in solver slv
ShapeModels(c, slv) == ShapeStage(c, slv, {EmptyShapeAssignment}, 0)

----------------------------------------------------------------------------
(* The life of a ShapeConstrainer: it is constructed, alone or on the      *)
(* solver of a SymbolGrid whose cells are then bound to its shape types,   *)
(* the solver is checked, and is_unique is called on the SymbolGrid.       *)

Monomino == Shape(<< <<0, 0>> >>)

Domino == Shape(<< <<0, 0>>, <<0, 1>> >>)

\* three cells around a corner, listed from an offset that is not (0, 0)
Corner == Shape(<< <<0, 1>>, <<1, 0>>, <<1, 1>> >>)

ShapeLists ==
  {<<Monomino>>, <<Domino>>, <<Domino, Domino>>, <<Monomino, Domino>>,
   <<Corner, Monomino>>}

\* test_no_payloads
TestNoPayloads ==
  [lattice |-> [h |-> 3, w |-> 3],
   shapes |-> << Shape(<< <<0, 0>>, <<0, 1>>, <<1, 0>> >>),
                 Shape(<< <<0, 1>>, <<1, 0>>, <<1, 1>>, <<2, 1>> >>),
                 Shape(<< <<0, 0>>, <<0, 1>> >>) >>,
   complete |-> TRUE,
   allow_rotations |-> FALSE,
   allow_reflections |-> FALSE,
   allow_copies |-> FALSE,
   symbols |-> <<0, 2>>,
   cells |-> "shape_type"]

\* test_int_payloads: the cells are numbers from 1 to 9, bound to the
\* payloads
TestIntPayloads ==
  [lattice |-> [h |-> 3, w |-> 3],
   shapes |-> << ShapeWithPayloads(<< <<<<0, 0>>, 1>>, <<<<0, 1>>, 2>>,
                                      <<<<1, 0>>, 4>> >>),
                 ShapeWithPayloads(<< <<<<0, 1>>, 3>>, <<<<1, 0>>, 5>>,
                                      <<<<1, 1>>, 6>>, <<<<2, 1>>, 9>> >>),
                 ShapeWithPayloads(<< <<<<0, 0>>, 7>>, <<<<0, 1>>, 8>> >>) >>,
   complete |-> TRUE,
   allow_rotations |-> FALSE,
   allow_reflections |-> FALSE,
   allow_copies |-> FALSE,
   symbols |-> <<1, 9>>,
   cells |-> "shape_payload"]

\* a puzzle whose shape may be placed several times: dominoes, lying or
\* standing, cover a 2x2 grid
CopiesPuzzle ==
  [lattice |-> [h |-> 2, w |-> 2],
   shapes |-> <<Domino>>,
   complete |-> TRUE,
   allow_rotations |-> TRUE,
   allow_reflections |-> FALSE,
   allow_copies |-> TRUE,
   symbols |-> <<0, 0>>,
   cells |-> "shape_type"]

\* a domino whose two cells have different payloads, and one whose
\* second cell has none
PayloadDomino == ShapeWithPayloads(<< <<<<0, 0>>, 1>>, <<<<0, 1>>, 2>> >>)

HalfPayloadDomino == << <<<<0, 0>>, <<1>>>>, <<<<0, 1>>, None>> >>

PayloadShapeLists ==
  {<<PayloadDomino>>, <<PayloadDomino, Monomino>>, <<Monomino, PayloadDomino>>,
   <<HalfPayloadDomino>>}

\* shapes with payloads, on a solver of their own
PayloadConfigs ==
  [lattice : Lattices, shapes : PayloadShapeLists, complete : BOOLEAN,
   allow_rotations : BOOLEAN, allow_reflections : {FALSE},
   allow_copies : BOOLEAN, symbols : {None}, cells : {"shape_type"}]

\* a ShapeConstrainer on a solver of its own, with no SymbolGrid
StandaloneConfigs ==
  [lattice : Lattices, shapes : ShapeLists, complete : BOOLEAN,
   allow_rotations : BOOLEAN, allow_reflections : BOOLEAN,
   allow_copies : BOOLEAN, symbols : {None}, cells : {"shape_type"}]

\* puzzles: every cell of a SymbolGrid is the shape type of its point
PuzzleConfigs ==
  [lattice : Lattices, shapes : ShapeLists, complete : {TRUE},
   allow_rotations : BOOLEAN, allow_reflections : {FALSE},
   allow_copies : {FALSE}, symbols : {<<0, 1>>}, cells : {"shape_type"}]
  \cup {TestNoPayloads, TestIntPayloads, CopiesPuzzle}

ShapeConfigs == StandaloneConfigs \cup PuzzleConfigs \cup PayloadConfigs

\* __add_constraints that never adds the single copy assertions
AddConstraintsGroups_Copies(c) == {"grid_agreement"}

\* the assertion groups __add_constraints adds after __create_grids
AddConstraintsGroups(c) ==
  {"grid_agreement"} \cup (IF ~c.allow_copies THEN {"single_copy"} ELSE {})

\* ShapeConstrainer(lattice, shapes, solver, complete, ...): the assertions
\* added before an exception stay in the solver
ShapeConstrainerInit ==
  /\ pc = "snew"
  /\ LET r == ShapeInstanceConstraints(scfg) IN
     IF r.err # ""
       THEN /\ pc' = "sraised"
            /\ ssolver' = [ssolver EXCEPT
                 !.groups = @ \cup {"create_grids", "grid_agreement"}]
       ELSE /\ pc' = "sconstructed"
            /\ ssolver' = [ssolver EXCEPT
                 !.groups = @ \cup {"create_grids"}
                              \cup AddConstraintsGroups(scfg),
                 !.instance = r.asserts]
  /\ UNCHANGED <<scfg, smodel>>
  /\ UNCHANGED rvars
  /\ UNCHANGED qvars
  /\ UNCHANGED ovars

\* solver.check(), SymbolGrid.solve(): the first call, and a call made
\* again after is_unique has added a clause (before that, a second call
\* can only return what the first call can)
ShapeCheck ==
  /\ \/ pc = "sconstructed"
     \/ pc \in {"ssat", "snotunique"} /\ ssolver.excluded # {}
  /\ LET M == ShapeModels(scfg, ssolver) IN
     IF M = {}
       THEN pc' = "sunsat" /\ UNCHANGED smodel
       ELSE pc' = "ssat" /\ smodel' \in M
  /\ UNCHANGED <<scfg, ssolver>>
  /\ UNCHANGED rvars
  /\ UNCHANGED qvars
  /\ UNCHANGED ovars

\* is_unique that checks again without asserting a clause
IsUnique_NoClause ==
  /\ pc \in {"ssat", "snotunique"}
  /\ scfg.symbols # None
  /\ Cardinality(ssolver.excluded) < MaxIsUnique
  /\ LET M == ShapeModels(scfg, ssolver) IN
     IF M = {}
       THEN pc' = "sunique" /\ UNCHANGED smodel
       ELSE pc' = "snotunique" /\ smodel' \in M
  /\ UNCHANGED <<scfg, ssolver>>
  /\ UNCHANGED rvars
  /\ UNCHANGED qvars
  /\ UNCHANGED ovars

\* is_unique whose clause replaces the clauses of the earlier calls
IsUnique_Forgetful ==
  /\ pc \in {"ssat", "snotunique"}
  /\ scfg.symbols # None
  /\ Cardinality(ssolver.excluded) < MaxIsUnique
  /\ LET slv == [ssolver EXCEPT !.excluded = {CellGrid(scfg, smodel)}]
         M == ShapeModels(scfg, slv) IN
     /\ ssolver' = slv
     /\ IF M = {}
          THEN pc' = "sunique" /\ UNCHANGED smodel
          ELSE pc' = "snotunique" /\ smodel' \in M
  /\ UNCHANGED scfg
  /\ UNCHANGED rvars
  /\ UNCHANGED qvars
  /\ UNCHANGED ovars

\* SymbolGrid.is_unique()
IsUnique ==
  /\ pc \in {"ssat", "snotunique"}
  /\ scfg.symbols # None
  /\ Cardinality(ssolver.excluded) < MaxIsUnique
  /\ LET slv == [ssolver EXCEPT !.excluded = @ \cup {CellGrid(scfg, smodel)}]
         M == ShapeModels(scfg, slv) IN
     /\ ssolver' = slv
     /\ IF M = {}
          THEN pc' = "sunique" /\ UNCHANGED smodel
          ELSE pc' = "snotunique" /\ smodel' \in M
  /\ UNCHANGED scfg
  /\ UNCHANGED rvars
  /\ UNCHANGED qvars
  /\ UNCHANGED ovars

\* the SymbolGrid, when there is one, is constructed first, on the solver
\* that the ShapeConstrainer is given
InitShape ==
  /\ pc = "snew"
  /\ RegionIdle
  /\ QuadIdle
  /\ scfg \in ShapeConfigs
  /\ ssolver = [groups |-> IF scfg.symbols # None THEN {"symbol_grid"} ELSE {},
                instance |-> <<>>,
                excluded |-> {}]
  /\ smodel = EmptyShapeAssignment
  /\ OthersIdle

NextShape == ShapeConstrainerInit \/ ShapeCheck \/ IsUnique

SpecShape == InitShape /\ [][NextShape]_vars

----------------------------------------------------------------------------
(* The variants of a shape: __make_variants asks the lattice for its       *)
(* transformation functions and keeps one canonical shape for each image.  *)

LatticeClasses ==
  {"RectangularLattice", "FlatToppedHexagonalLattice",
   "PointyToppedHexagonalLattice"}

\* four cells in a row with a fifth cell below the second: no rotation
\* and no reflection of the square grid maps it to itself
RectangularShapes ==
  {Monomino, Domino, Corner, PayloadDomino,
   Shape(<< <<0, 0>>, <<0, 1>>, <<0, 2>>, <<1, 2>> >>),
   Shape(<< <<1, 1>>, <<0, 0>>, <<0, 1>>, <<0, 2>>, <<0, 3>> >>)}

\* shapes of a hexagonal lattice, in doubled coordinates; the fourth is
\* three cells in a row and a cell below the end of the row, which no
\* reflection of the hexagonal grid maps to a translated copy of itself
HexagonalShapes ==
  {Monomino,
   Shape(<< <<0, 0>>, <<1, 1>> >>),
   Shape(<< <<1, 1>>, <<0, 0>>, <<0, 2>> >>),
   Shape(<< <<0, 0>>, <<0, 2>>, <<0, 4>>, <<1, 5>> >>),
   ShapeWithPayloads(<< <<<<0, 0>>, 1>>, <<<<0, 2>>, 2>> >>),
   ShapeWithPayloads(<< <<<<2, 0>>, 1>>, <<<<0, 0>>, 2>> >>)}

\* a lattice of some class, the flags and one shape of a ShapeConstrainer
GeomConfigs ==
  {c \in [class : LatticeClasses, allow_rotations : BOOLEAN,
          allow_reflections : BOOLEAN,
          shape : RectangularShapes \cup HexagonalShapes] :
     c.shape \in (IF c.class = "RectangularLattice"
                    THEN RectangularShapes ELSE HexagonalShapes)}

\* __make_variants for the one shape: fs and the shape's variants
CallMakeVariants ==
  /\ pc = "gnew"
  /\ pc' = "gmade"
  /\ LET fs == LatticeTransformationFunctions(
                 gcfg.class, gcfg.allow_rotations, gcfg.allow_reflections) IN
     gvariants' = [fs |-> fs,
                   variants |-> ShapeVariants(gcfg.shape, fs, 1, <<>>)]
  /\ UNCHANGED gcfg
  /\ UNCHANGED rvars
  /\ UNCHANGED qvars
  /\ UNCHANGED svars
  /\ UNCHANGED cvars
  /\ UNCHANGED pvars

InitGeom ==
  /\ pc = "gnew"
  /\ RegionIdle
  /\ QuadIdle
  /\ ShapeIdle
  /\ gcfg \in GeomConfigs
  /\ gvariants = <<>>
  /\ SharedIdle
  /\ PathIdle

NextGeom == CallMakeVariants

SpecGeom == InitGeom /\ [][NextGeom]_vars

----------------------------------------------------------------------------
(* Several constrainers constructed on one shared solver.  A z3 variable   *)
(* is identified by its name: two grids that hold the same name hold the   *)
(* same variable.                                                          *)

\* at most MaxInstances constrainers are constructed on the shared solver
MaxInstances == 3

\* the f-strings of __create_grids: prefix, instance index, p.y and p.x
VariableName(prefix, index, p) ==
  prefix \o "-" \o ToString(index) \o "-" \o ToString(p[1])
         \o "-" \o ToString(p[2])

\* a class attribute that construction leaves as it was
Incremented_Not(index) == index

\* _instance_index += 1
Incremented(index) == index + 1

\* the grids __create_grids of a RegionConstrainer fills: point -> name
RegionGrids(c, index) ==
  LET grid(prefix) ==
        [p \in LatticePoints(c.lattice) |-> VariableName(prefix, index, p)] IN
  [parent |-> grid("rcp"), subtree_size |-> grid("rcss"),
   region_id |-> grid("rcid"), region_size |-> grid("rcrs")]

\* the grids __create_grids of a ShapeConstrainer fills: point -> name
ShapeGrids(c, index) ==
  LET grid(prefix) ==
        [p \in LatticePoints(c.lattice) |-> VariableName(prefix, index, p)] IN
  [shape_type |-> grid("scst"), shape_instance |-> grid("scsi"),
   shape_payload |-> IF HasPayloadGrid(c) THEN grid("scsp") ELSE <<>>]

SharedLattice == [h |-> 1, w |-> 2]

SharedRegionConfigs ==
  [lattice : {SharedLattice}, complete : BOOLEAN, rectangular : {FALSE},
   min_region_size : {None}, max_region_size : {None}]

\* the shape constrainers whose constructor returns; the complete one
\* with a single monomino has no model
SharedShapeConfigs ==
  {c \in [lattice : {SharedLattice}, shapes : {<<Monomino>>, <<Domino>>},
          complete : BOOLEAN, allow_rotations : {FALSE},
          allow_reflections : {FALSE}, allow_copies : {FALSE},
          symbols : {None}, cells : {"shape_type"}] :
     /\ ShapeInstanceConstraints(c).err = ""
     /\ c.complete => c.shapes = <<Monomino>>}

\* RegionConstrainer(lattice, solver=shared, ...)
ConstructRegionConstrainer ==
  /\ pc = "shared"
  /\ Len(shared) < MaxInstances
  /\ \E c \in SharedRegionConfigs :
       LET index == Incremented(instance_index.RegionConstrainer) IN
       /\ instance_index' =
            [instance_index EXCEPT !.RegionConstrainer = index]
       /\ shared' = Append(shared,
            [class |-> "RegionConstrainer", cfg |-> c,
             slv |-> {"create_grids", "add_constraints"}
                     \cup (IF c.rectangular
                             THEN {"add_rectangular_constraints"} ELSE {}),
             grids |-> RegionGrids(c, index)])
  /\ UNCHANGED pc
  /\ UNCHANGED rvars
  /\ UNCHANGED qvars
  /\ UNCHANGED svars
  /\ UNCHANGED gvars
  /\ UNCHANGED pvars

\* ShapeConstrainer(lattice, shapes, solver=shared, ...)
ConstructShapeConstrainer ==
  /\ pc = "shared"
  /\ Len(shared) < MaxInstances
  /\ \E c \in SharedShapeConfigs :
       LET index == Incremented(instance_index.ShapeConstrainer) IN
       /\ instance_index' =
            [instance_index EXCEPT !.ShapeConstrainer = index]
       /\ shared' = Append(shared,
            [class |-> "ShapeConstrainer", cfg |-> c,
             slv |-> [groups |-> {"create_grids"}
                                 \cup AddConstraintsGroups(c),
                      instance |-> ShapeInstanceConstraints(c).asserts,
                      excluded |-> {}],
             grids |-> ShapeGrids(c, index)])
  /\ UNCHANGED pc
  /\ UNCHANGED rvars
  /\ UNCHANGED qvars
  /\ UNCHANGED svars
  /\ UNCHANGED gvars
  /\ UNCHANGED pvars

\* the class attributes count the constructions of the process, on this
\* solver or on another
InitShared ==
  /\ pc = "shared"
  /\ RegionIdle
  /\ QuadIdle
  /\ ShapeIdle
  /\ gcfg = <<>>
  /\ gvariants = <<>>
  /\ PathIdle
  /\ instance_index \in [RegionConstrainer : 0 .. 1, ShapeConstrainer : 0 .. 1]
  /\ shared = <<>>

NextShared == ConstructRegionConstrainer \/ ConstructShapeConstrainer

SpecShared == InitShared /\ [][NextShared]_vars

----------------------------------------------------------------------------
(* paths.py: PathSymbolSet and PathConstrainer on the SymbolGrid of a      *)
(* rectangular lattice                                                     *)

\* itertools.combinations(dirs, 2), in the order it yields the pairs
AllDirectionPairs ==
  LET n == Len(EdgeSharingDirections)
      before(i, j) == Cardinality({q \in (1 .. n) \X (1 .. n) :
                        /\ q[1] < q[2]
                        /\ q[1] < i \/ (q[1] = i /\ q[2] < j)}) IN
  [k \in 1 .. (n * (n - 1)) \div 2 |->
     LET q == CHOOSE q \in (1 .. n) \X (1 .. n) :
                q[1] < q[2] /\ before(q[1], q[2]) = k - 1 IN
     <<EdgeSharingDirections[q[1]], EdgeSharingDirections[q[2]]>>]

\* __max_path_segment_symbol_index
MaxPathSegmentSymbolIndex == Len(AllDirectionPairs) - 1

\* __max_path_terminal_symbol_index
MaxPathTerminalSymbolIndex ==
  MaxPathSegmentSymbolIndex + Len(EdgeSharingDirections)

\* terminal_for_direction: the terminals are appended after the segments,
\* in the order of the directions
TerminalForDirection(d) ==
  MaxPathSegmentSymbolIndex
    + (CHOOSE i \in 1 .. Len(EdgeSharingDirections) :
         EdgeSharingDirections[i] = d)

\* symbols_for_direction
SymbolsForDirection(c, d) ==
  {k - 1 : k \in {k \in 1 .. Len(AllDirectionPairs) :
                    d \in {AllDirectionPairs[k][1], AllDirectionPairs[k][2]}}}
  \cup (IF c.include_terminals THEN {TerminalForDirection(d)} ELSE {})

\* SymbolSet.max_index, after sym.append("BLANK", " ") when c.blank
MaxIndex(c) ==
  (IF c.include_terminals THEN MaxPathTerminalSymbolIndex
                          ELSE MaxPathSegmentSymbolIndex)
  + (IF c.blank THEN 1 ELSE 0)

\* PathSymbolSet.is_path
IsPath(c, symbol) ==
  IF c.include_terminals
    THEN symbol < MaxPathTerminalSymbolIndex + 1
    ELSE symbol < MaxPathSegmentSymbolIndex + 1

\* PathSymbolSet.is_terminal
IsTerminal(c, symbol) ==
  IF ~c.include_terminals
    THEN FALSE
    ELSE /\ symbol > MaxPathSegmentSymbolIndex
         /\ symbol < MaxPathTerminalSymbolIndex + 1

\* SymbolGrid.__init__: the assertions on the cell of point p
PathSymbolGridAsserts(c, a, p) ==
  /\ a.cell[p] >= 0
  /\ a.cell[p] <= MaxIndex(c)

\* __add_path_edge_constraints: the assertions of the loop body for p;
\* an assertion that reads an undecided variable is not false
PathEdgeAsserts(c, a, p) ==
  \A i \in 1 .. Len(EdgeSharingDirections) :
    LET d == EdgeSharingDirections[i]
        np == Translate(p, DirVector(d))
        dir_syms == SymbolsForDirection(c, d) IN
    IF InLattice(c.lattice, np)
      THEN Has(a.cell, np) =>
             (a.cell[p] \in dir_syms =>
                a.cell[np] \in SymbolsForDirection(c, OppositeDirection(d)))
      ELSE a.cell[p] \notin dir_syms

\* the order is 0 on other cells too
OrderZeroAtInstanceCell_Dropped(c, a, p) == TRUE

\* (path_order_grid[p] == 0) == (pi == point_to_index(p))
OrderZeroAtInstanceCell(c, a, p) ==
  (a.path_order[p] = 0) <=> (a.path_instance[p] = PointToIndex(c.lattice, p))

\* __add_path_instance_grid_constraints: the assertions of the loop body
PathInstanceGridAsserts(c, a, p) ==
  LET pi == a.path_instance[p] IN
  /\ IF c.complete THEN pi >= 0 ELSE pi >= -1
  /\ pi < NumPoints(c.lattice)
  /\ IsPath(c, a.cell[p]) <=> (pi # -1)
  /\ Has(a.path_order, p) => OrderZeroAtInstanceCell(c, a, p)
  /\ \A i \in 1 .. Len(EdgeSharingDirections) :
       LET d == EdgeSharingDirections[i]
           np == Translate(p, DirVector(d)) IN
       (InLattice(c.lattice, np) /\ Has(a.path_instance, np)) =>
         (a.cell[p] \in SymbolsForDirection(c, d) =>
            pi = a.path_instance[np])

\* __add_path_order_grid_constraints: the assertions of the loop body
PathOrderGridAsserts(c, a, p) ==
  LET po == a.path_order[p]
      cell == a.cell[p]
      order == a.path_order IN
  /\ IF c.complete THEN po >= 0 ELSE po >= -1
  /\ IsPath(c, cell) <=> (po # -1)
  /\ \A i \in 1 .. Len(EdgeSharingDirections) :
       LET d == EdgeSharingDirections[i]
           np == Translate(p, DirVector(d)) IN
       (c.include_terminals /\ InLattice(c.lattice, np) /\ Has(order, np)) =>
         (cell = TerminalForDirection(d) =>
            \/ po = 0 /\ order[np] = 1
            \/ po > 0 /\ order[np] = po - 1)
  /\ \A k \in 1 .. Len(AllDirectionPairs) :
       LET idx == k - 1
           pi == Translate(p, DirVector(AllDirectionPairs[k][1]))
           pj == Translate(p, DirVector(AllDirectionPairs[k][2])) IN
       (/\ InLattice(c.lattice, pi) /\ InLattice(c.lattice, pj)
        /\ Has(order, pi) /\ Has(order, pj)) =>
         /\ cell = idx => order[pi] # order[pj]
         /\ (cell = idx /\ po > 0) =>
              \/ /\ order[pi] = po - 1
                 /\ \/ order[pj] = po + 1
                    \/ (IF c.allow_loops THEN order[pj] = 0 ELSE FALSE)
              \/ /\ \/ order[pi] = po + 1
                    \/ (IF c.allow_loops THEN order[pi] = 0 ELSE FALSE)
                 /\ order[pj] = po - 1

\* __add_allow_terminated_paths_constraints
AllowTerminatedPathsAsserts(c, a, p) ==
  ~c.allow_terminated_paths => ~IsTerminal(c, a.cell[p])

\* no assertion made for point p whose variables are all decided is false
PathPointAsserts(c, slv, a, p) ==
  /\ "symbol_grid" \in slv => PathSymbolGridAsserts(c, a, p)
  /\ "path_edge" \in slv => PathEdgeAsserts(c, a, p)
  /\ "allow_terminated_paths" \in slv => AllowTerminatedPathsAsserts(c, a, p)
  /\ ("path_instance_grid" \in slv /\ Has(a.path_instance, p)) =>
       PathInstanceGridAsserts(c, a, p)
  /\ ("path_order_grid" \in slv /\ Has(a.path_order, p)) =>
       PathOrderGridAsserts(c, a, p)

\* every assertion the solver holds is true under the complete assignment a
PathAsserts(c, slv, a) ==
  \A p \in LatticePoints(c.lattice) : PathPointAsserts(c, slv, a, p)

\* no assertion that reads a variable of point p is false
PathNotFalseAround(c, slv, a, p) ==
  \A q \in ({p} \cup Neighbours(c, p)) \cap DOMAIN a.cell :
    PathPointAsserts(c, slv, a, q)

EmptyPathAssignment == [cell |-> <<>>, path_instance |-> <<>>, path_order |-> <<>>]

\* the values the solver tries for a cell, an instance and an order; an
\* order has no upper bound in the assertions
CellWindow(c) == (-1) .. (MaxIndex(c) + 1)

PathInstanceWindow(c) == (-2) .. NumPoints(c.lattice)

PathOrderWindow(c) == (-2) .. (NumPoints(c.lattice) + 1)

RECURSIVE CellStage(_, _, _, _)

\* the cells of the first i points
CellStage(c, slv, A, i) ==
  IF i >= NumPoints(c.lattice) THEN A
  ELSE LET p == IndexToPoint(c.lattice, i) IN
       CellStage(c, slv,
         {a2 \in {[a EXCEPT !.cell = @ @@ (p :> s)] :
                    a \in A, s \in CellWindow(c)} :
            PathNotFalseAround(c, slv, a2, p)},
         i + 1)

\* the point whose instance and order are decided next: an undecided
\* point that a decided cell has an arm towards if there is one (an order
\* that lets the assertions be evaluated early)
NextPathPoint(c, a) ==
  LET open == {p \in LatticePoints(c.lattice) : ~Has(a.path_instance, p)}
      linked ==
        {p \in open :
           \E i \in 1 .. Len(EdgeSharingDirections) :
             LET d == EdgeSharingDirections[i]
                 q == Translate(p, DirVector(OppositeDirection(d))) IN
             /\ Has(a.path_instance, q)
             /\ a.cell[q] \in SymbolsForDirection(c, d)} IN
  IF linked # {} THEN Lowest(c, linked) ELSE Lowest(c, open)

\* the instance of the next point, then its order
PathStep(c, slv, a) ==
  LET p == NextPathPoint(c, a)
      B == {a2 \in {[a EXCEPT !.path_instance = @ @@ (p :> n)] :
                      n \in PathInstanceWindow(c)} :
              PathNotFalseAround(c, slv, a2, p)} IN
  {a2 \in {[b EXCEPT !.path_order = @ @@ (p :> o)] :
             b \in B, o \in PathOrderWindow(c)} :
     PathNotFalseAround(c, slv, a2, p)}

RECURSIVE PathStage(_, _, _, _)

\* the instances and the orders of i more points
PathStage(c, slv, A, i) ==
  IF i >= NumPoints(c.lattice) THEN A
  ELSE PathStage(c, slv, UNION {PathStep(c, slv, a) : a \in A}, i + 1)

\* the models of the assertions in solver slv
PathModels(c, slv) ==
  {a \in PathStage(c, slv, CellStage(c, slv, {EmptyPathAssignment}, 0), 0) :
     PathAsserts(c, slv, a)}

\* a grid with room for a loop beside cells on no path
BlankGrid ==
  [lattice |-> [h |-> 2, w |-> 3], labelled |-> FALSE, complete |-> FALSE,
   allow_terminated_paths |-> TRUE, allow_loops |-> TRUE,
   include_terminals |-> FALSE, blank |-> TRUE]

\* labelled: the lattice is of a class that defines label_for_direction,
\* which PathSymbolSet calls for every terminal; no class of geometry.py
\* defines it, a subclass may
PathConfigs ==
  {c \in [lattice : Lattices, labelled : BOOLEAN, complete : BOOLEAN,
          allow_terminated_paths : BOOLEAN, allow_loops : BOOLEAN,
          include_terminals : BOOLEAN, blank : BOOLEAN] :
     c.labelled => c.include_terminals}
  \cup {BlankGrid}

\* PathSymbolSet(lattice, include_terminals): appending the first terminal
\* raises AttributeError when the lattice has no label_for_direction
PathSymbolSetInit ==
  /\ pc = "pnew"
  /\ pc' = IF pcfg.include_terminals /\ ~pcfg.labelled
             THEN "praised" ELSE "psymbols"
  /\ UNCHANGED pvars
  /\ UNCHANGED rvars
  /\ UNCHANGED qvars
  /\ UNCHANGED svars
  /\ UNCHANGED gvars
  /\ UNCHANGED cvars

\* SymbolGrid(lattice, sym), then PathConstrainer(symbol_grid, complete,
\* allow_terminated_paths, allow_loops) on its solver
PathConstrainerInit ==
  /\ pc = "psymbols"
  /\ pc' = "pconstructed"
  /\ psolver' = {"symbol_grid", "path_edge", "path_instance_grid",
                 "path_order_grid", "allow_terminated_paths"}
  /\ UNCHANGED <<pcfg, pmodel>>
  /\ UNCHANGED rvars
  /\ UNCHANGED qvars
  /\ UNCHANGED svars
  /\ UNCHANGED gvars
  /\ UNCHANGED cvars

\* SymbolGrid.solve: solver.check() returns sat with some model, or unsat
PathCheck ==
  /\ pc = "pconstructed"
  /\ LET M == PathModels(pcfg, psolver) IN
     IF M = {}
       THEN pc' = "punsat" /\ UNCHANGED pmodel
       ELSE pc' = "psat" /\ pmodel' \in M
  /\ UNCHANGED <<pcfg, psolver>>
  /\ UNCHANGED rvars
  /\ UNCHANGED qvars
  /\ UNCHANGED svars
  /\ UNCHANGED gvars
  /\ UNCHANGED cvars

InitPath ==
  /\ pc = "pnew"
  /\ RegionIdle
  /\ QuadIdle
  /\ ShapeIdle
  /\ gcfg = <<>>
  /\ gvariants = <<>>
  /\ SharedIdle
  /\ pcfg \in PathConfigs
  /\ psolver = {}
  /\ pmodel = EmptyPathAssignment

NextPath == PathSymbolSetInit \/ PathConstrainerInit \/ PathCheck

SpecPath == InitPath /\ [][NextPath]_vars

----------------------------------------------------------------------------
(* Claims about ExpressionQuadTree.  The builders' expressions are atoms   *)
(* whose truth values a variable assignment chooses freely: an assignment  *)
(* is the set of the atoms <<b, p>> that are true.                         *)

RECURSIVE Eval(_, _)

\* the truth value of expression e under assignment asg
Eval(e, asg) ==
  IF e[1] = "atom"
    THEN <<e[2], e[3]>> \in asg
    ELSE \A i \in 1 .. Len(e[2]) : Eval(e[2][i], asg)

Assignments == SUBSET (Builders \X qpoints)

\* get_point_expr(key, p) called on the root now
PointExprNow(key, p) == GetPointExpr(qfuncs, qexprs, qpoints, key, p)

\* the last call was op, on a registered key
LastCall(op) ==
  /\ pc = "qready"
  /\ NumCalls > 0
  /\ qlast.op = op
  /\ qlast.key \in DOMAIN qfuncs

\* C9: get_other_points_expr(key, S), for a registered key, returns an
\* expression that has under every assignment the truth value of the
\* conjunction of get_point_expr(key, p) over the points p of the tree
\* that are not in S (true when there is no such point)
C9_OtherPointsExprIsConjunction ==
  LastCall("get_other_points_expr") =>
    /\ qlast.err = ""
    /\ qlast.out # None
    /\ \A asg \in Assignments :
         Eval(qlast.out, asg) =
           (\A p \in qpoints \ qlast.arg :
              Eval(PointExprNow(qlast.key, p).out, asg))

\* C10: get_point_expr(key, p), for a registered key, returns for a point
\* of the tree the atom a builder registered under key makes for p, the
\* only builder when there never was another, and raises ValueError for
\* every other point
C10_PointExprExact ==
  LastCall("get_point_expr") =>
    IF qlast.arg \in qpoints
      THEN /\ qlast.err = ""
           /\ \E b \in Builders :
                /\ <<qlast.key, b>> \in qhist
                /\ qlast.out = Atom(b, qlast.arg)
      ELSE qlast.err = "ValueError"

\* get_point_expr has raised ValueError for a hole in the bounding box of
\* a tree of several points, whose cache holds an expression that an
\* earlier call under the same key has returned
C10_Witness ==
  /\ LastCall("get_point_expr")
  /\ Cardinality(qpoints) = MaxTreePoints
  /\ qlast.arg \notin qpoints
  /\ CoversPoint(qpoints, qlast.arg)
  /\ qlast.err = "ValueError"
  /\ \E p \in qpoints : <<{p}, qlast.key>> \in DOMAIN qexprs

\* the step is a call of add_expr
AddExprStep == qlast' # qlast /\ qlast'.op = "add_expr"

\* C11, as stated: add_expr never overwrites.  Once a builder is
\* registered under a key no step replaces it, and an expression that a
\* step builds for a leaf under the key comes from that builder
C11_AddExprNeverOverwrites ==
  [][
      /\ \A k \in DOMAIN qfuncs :
          k \in DOMAIN qfuncs' /\ qfuncs'[k] = qfuncs[k]
      /\ \A c \in DOMAIN qexprs' \ DOMAIN qexprs :
          IsLeaf(c[1]) =>
            qexprs'[c] = Atom(qfuncs'[c[2]], LeafPoint(c[1]))]_vars

\* C11, amended: add_expr replaces.  After add_expr(key, b) the builder
\* registered under key is b, whatever was registered before, the other
\* keys keep their builders and no cache changes; no step changes an
\* expression that is memoized, and an expression that a step builds for
\* a leaf comes from the builder registered under its key at that step
C11_AddExprReplaces ==
  [][
      /\ AddExprStep =>
          /\ qfuncs'[qlast'.key] = qlast'.arg
          /\ DOMAIN qfuncs' = DOMAIN qfuncs \cup {qlast'.key}
          /\ \A k \in DOMAIN qfuncs \ {qlast'.key} : qfuncs'[k] = qfuncs[k]
          /\ qexprs' = qexprs
      /\ ~AddExprStep => qfuncs' = qfuncs
      /\ \A c \in DOMAIN qexprs :
          c \in DOMAIN qexprs' /\ qexprs'[c] = qexprs[c]
      /\ \A c \in DOMAIN qexprs' \ DOMAIN qexprs :
          IsLeaf(c[1]) =>
            qexprs'[c] = Atom(qfuncs[c[2]], LeafPoint(c[1]))]_vars

\* add_expr has just registered a builder under a key that had another
\* one, from which an expression is memoized at a leaf
C11_Witness ==
  /\ LastCall("add_expr")
  /\ \E b \in Builders \ {qlast.arg} :
       /\ <<qlast.key, b>> \in qhist
       /\ \E p \in qpoints :
            /\ <<{p}, qlast.key>> \in DOMAIN qexprs
            /\ qexprs[<<{p}, qlast.key>>] = Atom(b, p)
  /\ qfuncs[qlast.key] = qlast.arg

\* the constructor of the quadtree has run
QuadConstructed == pc \in {"qraised", "qready"}

\* C12: the constructor raises ValueError exactly when the point list is
\* empty, and then nothing was created: no cache entry exists, the node
\* has no quadrant, and no method was ever called on it; a tree that was
\* constructed has points
C12_EmptyPointListRaises ==
  QuadConstructed =>
    /\ (pc = "qraised") <=> (qpoints = {})
    /\ pc = "qraised" =>
         /\ qexprs = <<>>
         /\ Quads(qpoints) = <<>>
         /\ NumCalls = 0

\* the constructor was given builders and an empty point list, and raised
C12_Witness ==
  /\ pc = "qraised"
  /\ qpoints = {}
  /\ qfuncs # <<>>

\* the step is a call of op that returned
ReturnedStep(op) == qlast' # qlast /\ qlast'.op = op /\ qlast'.err = ""

\* every leaf of the tree has a memoized expression under key
LeavesCached(key) == \A p \in qpoints : <<{p}, key>> \in DOMAIN qexprs

\* C26: memoization is write-once.  No call changes or removes an entry
\* that exists; what get_point_expr returns for a point, what get_exprs
\* returns for the leaves and what get_other_points_expr returns for the
\* whole tree is the stored entry afterwards, and when the entry existed
\* before the call it is returned and nothing is built (a builder is
\* invoked, and an aggregate built, only where an entry is created)
C26_WriteOnceMemoization ==
  [][
      /\ \A c \in DOMAIN qexprs :
           c \in DOMAIN qexprs' /\ qexprs'[c] = qexprs[c]
      /\ ReturnedStep("get_point_expr") =>
           LET c == <<{qlast'.arg}, qlast'.key>> IN
           /\ c \in DOMAIN qexprs' /\ qlast'.out = qexprs'[c]
           /\ DOMAIN qexprs' \subseteq DOMAIN qexprs \cup {c}
      /\ ReturnedStep("get_exprs") =>
           /\ Len(qlast'.out) = Cardinality(qpoints)
           /\ \A p \in qpoints :
                /\ <<{p}, qlast'.key>> \in DOMAIN qexprs'
                /\ \E i \in 1 .. Len(qlast'.out) :
                     qlast'.out[i] = qexprs'[<<{p}, qlast'.key>>]
           /\ LeavesCached(qlast'.key) => qexprs' = qexprs
      /\ (ReturnedStep("get_other_points_expr") /\ ~IsLeaf(qpoints)
            /\ \A p \in qlast'.arg : ~CoversPoint(qpoints, p)) =>
           LET c == <<qpoints, qlast'.key>> IN
           /\ c \in DOMAIN qexprs' /\ qlast'.out = qexprs'[c]
           /\ c \in DOMAIN qexprs => qexprs' = qexprs]_vars

\* get_exprs has returned the memoized expressions of a tree of several
\* points whose aggregate an earlier get_other_points_expr call has built
\* and stored, under a key whose builder was passed to the constructor
C26_Witness ==
  /\ LastCall("get_exprs")
  /\ qlast.n = MaxCalls
  /\ qlast.err = ""
  /\ Cardinality(qpoints) = MaxTreePoints
  /\ <<qpoints, qlast.key>> \in DOMAIN qexprs
  /\ qexprs[<<qpoints, qlast.key>>] = FastAnd(qlast.out)

\* p lies outside the bounding box of the points the tree was built from
OutsideBoundingBox(p) ==
  \/ \A q \in qpoints : p[1] < q[1]
  \/ \A q \in qpoints : p[1] > q[1]
  \/ \A q \in qpoints : p[2] < q[2]
  \/ \A q \in qpoints : p[2] > q[2]

\* the last call on the tree was covers_point
CoversPointCalled == NumCalls > 0 /\ qlast.op = "covers_point"

\* C24: covers_point(p) on the root returns True for every point the tree
\* was built from and False for every point outside the bounding box of
\* those points
C24_CoversPoint ==
  CoversPointCalled =>
    /\ qlast.arg \in qpoints => qlast.out = TRUE
    /\ OutsideBoundingBox(qlast.arg) => qlast.out = FALSE

\* covers_point has answered for a point right of the bounding box of a
\* tree of several points, after it answered for a point of the tree
C24_Witness ==
  /\ CoversPointCalled
  /\ Cardinality(qpoints) > 1
  /\ qlast.n = MaxCalls
  /\ \A q \in qpoints : qlast.arg[2] > q[2]
  /\ \E q \in qpoints : qlast.arg[1] = q[1]
  /\ qlast.out = FALSE

----------------------------------------------------------------------------
(* Claims about ShapeConstrainer *)

ShapePoints == LatticePoints(scfg.lattice)

\* the solver has returned a model of its assertions
ShapeSat == pc \in {"ssat", "snotunique"}

\* the points that carry instance id i in the model
Instance(i) == {p \in ShapePoints : smodel.shape_instance[p] = i}

\* the points that have shape type s in the model
OfShapeType(s) == {p \in ShapePoints : smodel.shape_type[p] = s}

\* the vectors by which a shape can be moved into the lattice
Translations ==
  ((-3) .. (scfg.lattice.h + 2)) \X ((-3) .. (scfg.lattice.w + 2))

\* the footprints of listed shape s (counted from 0): its images under the
\* allowed transformations, translated
Footprints(s) ==
  LET fs == TransformationFunctions(scfg.allow_rotations,
                                    scfg.allow_reflections)
      shape == scfg.shapes[s + 1] IN
  {{Translate(ApplyTransformation(fs[k], shape[j][1]), t) :
      j \in 1 .. Len(shape)} : k \in 1 .. Len(fs), t \in Translations}

\* C6: in every model, the points of each instance id that occurs are
\* exactly a footprint of one listed shape s, and all have shape type s
C6_PlacementSoundness ==
  ShapeSat =>
    \A i \in 0 .. NumPoints(scfg.lattice) - 1 :
      Instance(i) # {} =>
        \E s \in 0 .. Len(scfg.shapes) - 1 :
          /\ Instance(i) \in Footprints(s)
          /\ \A p \in Instance(i) : smodel.shape_type[p] = s

\* a model with two instances of different shapes, one of them a domino
\* that a rotation has made vertical
C6_Witness ==
  /\ ShapeSat
  /\ scfg.shapes = <<Monomino, Domino>>
  /\ OfShapeType(0) # {}
  /\ \E p \in OfShapeType(1) :
       /\ Translate(p, <<1, 0>>) \in ShapePoints
       /\ smodel.shape_instance[Translate(p, <<1, 0>>)] =
            smodel.shape_instance[p]

\* C7: without copies, in every model the number of points of shape type
\* s is the number of offsets of shape s, and these points are one
\* instance, for every listed shape s
C7_SingleCopy ==
  (ShapeSat /\ ~scfg.allow_copies) =>
    \A s \in 0 .. Len(scfg.shapes) - 1 :
      /\ Cardinality(OfShapeType(s)) = Len(scfg.shapes[s + 1])
      /\ Cardinality({smodel.shape_instance[p] : p \in OfShapeType(s)}) = 1

\* a model without copies that places two listed shapes and leaves a
\* point out
C7_Witness ==
  /\ ShapeSat
  /\ ~scfg.allow_copies
  /\ Len(scfg.shapes) = 2
  /\ OfShapeType(-1) # {}

\* the shape type grid test_no_payloads expects
ExpectedTypes == << <<0, 0, 1>>, <<0, 1, 1>>, <<2, 2, 1>> >>

\* C8: in the scenario of test_no_payloads the solver finds a model, the
\* shape type grid of every model is the expected one, and no model
\* remains once that grid is excluded
C8_TestNoPayloads ==
  scfg = TestNoPayloads =>
    /\ pc \notin {"sraised", "sunsat", "snotunique"}
    /\ ShapeSat =>
         \A p \in ShapePoints :
           smodel.shape_type[p] = ExpectedTypes[p[1] + 1][p[2] + 1]

\* is_unique has returned true in the scenario of test_no_payloads
C8_Witness ==
  /\ scfg = TestNoPayloads
  /\ pc = "sunique"
  /\ ssolver.excluded # {}

RECURSIVE CellCount(_, _)

\* the number of cells of the shapes from the i-th on
CellCount(shapes, i) ==
  IF i > Len(shapes) THEN 0 ELSE Len(shapes[i]) + CellCount(shapes, i + 1)

\* a puzzle whose shapes have as many cells as the lattice has points,
\* every point to be covered and no shape to be used twice
ExactCover ==
  /\ scfg.symbols # None
  /\ scfg.cells = "shape_type"
  /\ scfg.complete
  /\ ~scfg.allow_copies
  /\ CellCount(scfg.shapes, 1) = NumPoints(scfg.lattice)

\* C19, as stated: in an exact cover puzzle the tiling is unique.  Once
\* the shape type grid of a model is excluded the solver finds no other
\* model, so is_unique never returns false
C19_TilingUnique ==
  ExactCover => pc # "snotunique"

\* C19, amended: in an exact cover puzzle every model is a tiling, in
\* which every point has a shape type and every listed shape is one
\* instance, but there can be several.  is_unique returns false with a
\* model whose shape type grid differs from every excluded one, and
\* returns true only when the excluded grids are all the tilings
C19_TilingNotAlwaysUnique ==
  ExactCover =>
    /\ ShapeSat =>
         /\ \A p \in ShapePoints :
              smodel.shape_type[p] \in 0 .. Len(scfg.shapes) - 1
         /\ \A s \in 0 .. Len(scfg.shapes) - 1 :
              /\ OfShapeType(s) \in Footprints(s)
              /\ \E i \in 0 .. NumPoints(scfg.lattice) - 1 :
                   OfShapeType(s) = Instance(i)
    /\ pc = "snotunique" => smodel.shape_type \notin ssolver.excluded
    /\ pc = "sunique" =>
         {m.shape_type :
            m \in ShapeModels(scfg, [ssolver EXCEPT !.excluded = {}])}
           = ssolver.excluded

\* is_unique has returned false in an exact cover puzzle whose shapes may
\* be neither rotated nor reflected
C19_Witness ==
  /\ ExactCover
  /\ ~scfg.allow_rotations
  /\ pc = "snotunique"
  /\ Cardinality(ssolver.excluded) = 1

\* the payload grid test_int_payloads expects: the index of the point,
\* plus one
ExpectedPayload(p) == PointToIndex(scfg.lattice, p) + 1

\* C20: when there is a payload grid, in every model the points of each
\* instance are the image of a listed shape under an allowed
\* transformation and a translation, and each of them has the payload of
\* the offset that lands on it; in the scenario of test_int_payloads the
\* solver finds a model, every model has the expected payload at every
\* point, and no model remains once that grid is excluded
C20_PayloadPropagation ==
  /\ (ShapeSat /\ HasPayloadGrid(scfg)) =>
       \A i \in 0 .. NumPoints(scfg.lattice) - 1 :
         Instance(i) # {} =>
           \E s \in 1 .. Len(scfg.shapes) :
             LET fs == TransformationFunctions(scfg.allow_rotations,
                                               scfg.allow_reflections)
                 shape == scfg.shapes[s]
                 lands(k, t, j) ==
                   Translate(ApplyTransformation(fs[k], shape[j][1]), t) IN
             \E k \in 1 .. Len(fs), t \in Translations :
               /\ Instance(i) = {lands(k, t, j) : j \in 1 .. Len(shape)}
               /\ \A j \in 1 .. Len(shape) :
                    smodel.shape_payload[lands(k, t, j)] = shape[j][2][1]
  /\ scfg = TestIntPayloads =>
       /\ pc \notin {"sraised", "sunsat", "snotunique"}
       /\ ShapeSat =>
            \A p \in ShapePoints : smodel.shape_payload[p] = ExpectedPayload(p)

\* a model in which a rotation has put the second cell of the domino
\* with payloads above its first cell
C20_Witness ==
  /\ ShapeSat
  /\ HasPayloadGrid(scfg)
  /\ \E p \in ShapePoints :
       LET q == Translate(p, <<1, 0>>) IN
       /\ q \in ShapePoints
       /\ smodel.shape_instance[p] = smodel.shape_instance[q]
       /\ smodel.shape_instance[p] # -1
       /\ smodel.shape_payload[p] = 2
       /\ smodel.shape_payload[q] = 1

\* the step is a call of is_unique
IsUniqueStep ==
  /\ pc \in {"ssat", "snotunique"}
  /\ pc' \in {"sunique", "snotunique"}
  /\ scfg.symbols # None

\* C23: is_unique returns true exactly when no assignment that satisfies
\* every assertion in the solver gives some cell of the SymbolGrid a value
\* other than the one it has in the model; assignments that differ from
\* the model in other variables only do not make it return false
C23_IsUniqueMeaning ==
  [][IsUniqueStep =>
       ((pc' = "sunique") <=>
          \A a \in ShapeModels(scfg, ssolver) :
            CellGrid(scfg, a) = CellGrid(scfg, smodel))]_vars

\* is_unique has returned true although the solver had a second model
\* before the call, with the same cells and other instance ids
C23_Witness ==
  /\ pc = "sunique"
  /\ \E a \in ShapeModels(scfg, [ssolver EXCEPT
                   !.excluded = @ \ {CellGrid(scfg, smodel)}]) :
       /\ a # smodel
       /\ CellGrid(scfg, a) = CellGrid(scfg, smodel)

\* C30: the clause of an is_unique call is permanent.  No step removes an
\* excluded grid, no model the solver holds after a step (of is_unique or
\* of solve) has an excluded grid, an is_unique call excludes the grid of
\* the model it found, and when it returns false the new model differs
\* from every excluded grid
C30_ExclusionsPermanent ==
  [][
      /\ ssolver.excluded \subseteq ssolver'.excluded
      /\ pc' \in {"ssat", "snotunique"} =>
           CellGrid(scfg, smodel') \notin ssolver'.excluded
      /\ IsUniqueStep =>
           ssolver'.excluded = ssolver.excluded \cup {CellGrid(scfg, smodel)}]_vars

\* solve was called again after is_unique had returned false as often as
\* the model lets it be called, and has found one more grid
C30_Witness ==
  /\ pc = "ssat"
  /\ Cardinality(ssolver.excluded) = MaxIsUnique
  /\ CellGrid(scfg, smodel) \notin ssolver.excluded
  /\ Cardinality(ShapeModels(scfg, [ssolver EXCEPT !.excluded = {}])) > MaxIsUnique

----------------------------------------------------------------------------
(* Claims about transformation functions and variants *)

\* the vectors of the lattice classes: any on the square grid, those with
\* an even sum on a hexagonal grid
GeomVectors ==
  {v \in (-3 .. 3) \X (-3 .. 3) :
     gcfg.class = "RectangularLattice" \/ (v[1] + v[2]) % 2 = 0}

\* C21: the list transformation_functions returns contains the identity,
\* for every lattice class and every combination of the two flags, and so
\* the untransformed shape, canonicalized, is among the variants
C21_IdentityAmongTransformations ==
  pc = "gmade" =>
    /\ \E i \in 1 .. Len(gvariants.fs) :
         \A v \in GeomVectors : ApplyTransformation(gvariants.fs[i], v) = v
    /\ \E k \in 1 .. Len(gvariants.variants) :
         Equivalent(gvariants.variants[k], Canonicalize(gcfg.shape))

\* the offset tuples of a shape as a set, moved so that the least vector
\* is (0, 0)
Normalized(S) ==
  LET least == CHOOSE u \in {o[1] : o \in S} :
                 \A o \in S : u = o[1] \/ VectorLess(u, o[1]) IN
  {<<Translate(o[1], Negate(least)), o[2]>> : o \in S}

\* the image of the shape under f, as a set of offset tuples
Image(f) ==
  {<<ApplyTransformation(f, gcfg.shape[j][1]), gcfg.shape[j][2]>> :
     j \in 1 .. Len(gcfg.shape)}

Range(seq) == {seq[j] : j \in 1 .. Len(seq)}

\* C27: the variants of a shape are canonical (offsets in increasing
\* order, the first one (0, 0)), no two of them have the same offset
\* tuples, and they are the images of the shape under the allowed
\* transformations, one variant for all images that differ by a
\* translation or by the order of the offsets
C27_VariantDeduplication ==
  pc = "gmade" =>
    LET variants == gvariants.variants IN
    /\ \A k \in 1 .. Len(variants) :
         /\ variants[k][1][1] = <<0, 0>>
         /\ \A j \in 1 .. Len(variants[k]) - 1 :
              VectorLess(variants[k][j][1], variants[k][j + 1][1])
    /\ \A j, k \in 1 .. Len(variants) :
         j # k => Range(variants[j]) # Range(variants[k])
    /\ {Range(variants[k]) : k \in 1 .. Len(variants)}
         = {Normalized(Image(gvariants.fs[i])) : i \in 1 .. Len(gvariants.fs)}

\* twelve transformations of a hexagonal lattice gave a shape with
\* payloads fewer than twelve and more than three variants
C27_Witness ==
  /\ pc = "gmade"
  /\ Len(gvariants.fs) = 12
  /\ gcfg.shape[1][2] # None
  /\ Len(gvariants.variants) > 3
  /\ Len(gvariants.variants) < 12

----------------------------------------------------------------------------
(* Claims about the instance ids of a ShapeConstrainer *)

\* the points variant v covers when its first offset lands on point r
Covered(v, r) == {Translate(r, v[j][1]) : j \in 1 .. Len(v)}

\* the variants of all listed shapes
AllVariants ==
  UNION {Range(MakeVariants(scfg)[s]) : s \in 1 .. Len(scfg.shapes)}

\* some variant of some shape lies inside the lattice with its first
\* offset on point r
FitsAt(r) == \E v \in AllVariants : Covered(v, r) \subseteq ShapePoints

\* C28: in every model, an instance id that occurs is the lattice index
\* of a point of that instance: the point the first offset of the placed
\* variant lands on, which is the least point of the instance in lattice
\* order.  The index of a point at which no variant fits is the instance
\* id of no cell
C28_InstanceIdIsRootIndex ==
  ShapeSat =>
    /\ \A i \in 0 .. NumPoints(scfg.lattice) - 1 :
         Instance(i) # {} =>
           LET root == IndexToPoint(scfg.lattice, i) IN
           /\ root \in Instance(i)
           /\ \A p \in Instance(i) : i <= PointToIndex(scfg.lattice, p)
           /\ \E v \in AllVariants : Instance(i) = Covered(v, root)
    /\ \A r \in ShapePoints :
         ~FitsAt(r) => Instance(PointToIndex(scfg.lattice, r)) = {}
    /\ \A p \in ShapePoints :
         smodel.shape_instance[p] \in -1 .. NumPoints(scfg.lattice) - 1

\* a model in which an instance of several cells has a root other than
\* the first point, which a rotation has put at the end of its variant's
\* listed offsets, and a covered point at which no variant fits
C28_Witness ==
  /\ ShapeSat
  /\ scfg.allow_rotations
  /\ \E i \in 1 .. NumPoints(scfg.lattice) - 1 :
       Cardinality(Instance(i)) > 1
  /\ \E r \in ShapePoints :
       ~FitsAt(r) /\ smodel.shape_instance[r] >= 0

----------------------------------------------------------------------------
(* Claims about constrainers on one shared solver *)

\* the solver variables of an instance
Names(inst) ==
  UNION {{inst.grids[g][p] : p \in DOMAIN inst.grids[g]} :
         g \in DOMAIN inst.grids}

\* the assignments satisfying the assertions the instance added, each
\* grid read by point
InstanceModels(inst) ==
  IF inst.class = "RegionConstrainer"
    THEN Models(inst.cfg, inst.slv)
    ELSE ShapeModels(inst.cfg, inst.slv)

\* what the assignment a of the instance's grids gives its variables
NamedValues(inst, a) ==
  UNION {{<<inst.grids[g][p], a[g][p]>> : p \in DOMAIN inst.grids[g]} :
         g \in DOMAIN inst.grids}

\* no variable is given two values
OneValued(V) == \A u, v \in V : u[1] = v[1] => u[2] = v[2]

Valuation(t) == UNION {NamedValues(shared[j], t[j]) : j \in 1 .. Len(t)}

\* the models of every instance on the shared solver
SharedModels == [k \in 1 .. Len(shared) |-> InstanceModels(shared[k])]

RECURSIVE JointModels(_, _)

\* the models of the shared solver, as one assignment for each of the
\* first k instances that agree on every variable they have in common
JointModels(M, k) ==
  IF k = 0 THEN {<<>>}
  ELSE {t \in {Append(s, a) : s \in JointModels(M, k - 1), a \in M[k]} :
          OneValued(Valuation(t))}

\* the assignments of instance i's grids in the models J of the shared
\* solver
Allowed(J, i) == {t[i] : t \in J}

\* the index in the names of instance k: the class attribute now, less
\* one for every instance of the class constructed after it
IndexOf(k) ==
  instance_index[shared[k].class]
    - Cardinality({j \in k + 1 .. Len(shared) :
                     shared[j].class = shared[k].class})

\* C22: the instances on a shared solver have pairwise disjoint variable
\* names, the names of an instance carry the prefixes of its class and
\* the value its construction gave the class attribute, one more for
\* every construction of the class, and the assignments the shared solver
\* allows for an instance's grids are those of its own assertions when
\* every other instance has a model, and none otherwise, which depends
\* only on which constrainers were constructed and not on their order
C22_ConstructionOrder ==
  pc = "shared" =>
    /\ \A i, j \in 1 .. Len(shared) :
         i # j => Names(shared[i]) \cap Names(shared[j]) = {}
    /\ \A k \in 1 .. Len(shared) :
         shared[k].grids =
           IF shared[k].class = "RegionConstrainer"
             THEN RegionGrids(shared[k].cfg, IndexOf(k))
             ELSE ShapeGrids(shared[k].cfg, IndexOf(k))
    /\ LET M == SharedModels
           J == JointModels(M, Len(shared))
           satisfiable == \A j \in 1 .. Len(shared) : M[j] # {} IN
       \A i \in 1 .. Len(shared) :
         Allowed(J, i) = IF satisfiable THEN M[i] ELSE {}

\* a second RegionConstrainer was constructed after a ShapeConstrainer and
\* a first RegionConstrainer with other arguments, and the solver allows
\* the second an assignment the first one's assertions reject
C22_Witness ==
  /\ pc = "shared"
  /\ Len(shared) = MaxInstances
  /\ shared[1].class = "RegionConstrainer"
  /\ shared[2].class = "ShapeConstrainer"
  /\ shared[3].class = "RegionConstrainer"
  /\ shared[1].cfg.complete /\ ~shared[3].cfg.complete
  /\ instance_index.RegionConstrainer = 3
  /\ \E a \in Allowed(JointModels(SharedModels, Len(shared)), 3) :
       /\ a \notin InstanceModels(shared[1])
       /\ \E p \in LatticePoints(SharedLattice) : a.region_id[p] = -1

----------------------------------------------------------------------------
(* Claims about PathConstrainer *)

PathPoints == LatticePoints(pcfg.lattice)

\* the cells that hold a path segment or a path terminal
PathCells == {p \in PathPoints : IsPath(pcfg, pmodel.cell[p])}

\* the cells the symbol of p has an arm towards
ArmsOf(p) ==
  {Translate(p, DirVector(EdgeSharingDirections[i])) :
     i \in {i \in 1 .. Len(EdgeSharingDirections) :
              pmodel.cell[p] \in
                SymbolsForDirection(pcfg, EdgeSharingDirections[i])}}

RECURSIVE Along(_, _)

\* the cells reached from the cells S by following arms, k times over
Along(S, k) ==
  IF k = 0 THEN S
  ELSE Along(S \cup UNION {ArmsOf(q) : q \in S}, k - 1)

\* the path through the path cell p
PathOf(p) == Along({p}, NumPoints(pcfg.lattice))

\* the cells of the path S with path order 0
OrderZero(S) == {z \in S : pmodel.path_order[z] = 0}

====
